---- MODULE Spec2Model ----
(***************************************************************************)
(* Model of the artist-explorer backend (src/backend).                     *)
(*                                                                         *)
(* Spec      : the Recommendation Path Engine of database.py               *)
(*             (RecommendationManager over one artist's recommendations_*  *)
(*             table and tracks_* table), with concurrent callers, one     *)
(*             step per awaited database statement.                        *)
(* RootSpec  : get_initial_recommendation alone, on fixed catalogs with    *)
(*             varied popularities.                                        *)
(* PathSpec  : the path arithmetic of get_next_recommendation on its own.  *)
(* GateSpec  : the catalog freshness gate of fast_api_test.py              *)
(*             (check_artist_status / search_songs_for_artist) over the    *)
(*             shared artists table of songs.db.                           *)
(* SyncSpec  : TrackManager.update_tracks statement by statement, with a   *)
(*             get_tracks reader.                                          *)
(* StreamSpec: event_generator of fast_api_test.py over the Redis store,   *)
(*             with its catalog refresh running on songs.db.               *)
(* FaultSpec : the same streams on one search id whose record another      *)
(*             Redis client may overwrite.                                 *)
(* LifeSpec  : one search id from start_search through the search_updates  *)
(*             endpoint and its streams.                                   *)
(* TableSpec : the managers of database.py called for several artist ids,  *)
(*             over the tables of songs.db by name.                        *)
(* NavSpec   : get_current_song on a stored session against get_next_song  *)
(*             on the tree in memory.                                      *)
(* DepSpec   : the get_db session dependency of database.py, per request.  *)
(* VoteSpec  : record_vote of fast_api_test.py, request by request.        *)
(* StoreSpec : SearchManager and SessionManager of redis_managers.py over  *)
(*             the Redis store and its clock.                              *)
(***************************************************************************)
EXTENDS Integers, Sequences, FiniteSets, TLC

\* ------------------------------------------------------------------ bounds
MaxSyncs == 2          \* catalog re-syncs (update_tracks) per behaviour
MaxCalls == 3          \* get_root / get_next calls started per behaviour
MaxCurrentPath == 1    \* current_path values 1..MaxCurrentPath
MaxGateCalls == 2      \* gate / get_or_create_artist calls per behaviour
MaxTicks == 2          \* clock advances per behaviour
MaxPathInput == 16     \* current_path values of PathSpec
MaxUpdates == 2        \* update_tracks calls of SyncSpec
MaxStreamRuns == 2     \* event_generator runs of StreamSpec
MaxRedisTicks == 2     \* advances of the Redis clock

\* --------------------------------------------------------------- universes
Procs == {"s1", "s2"}                 \* concurrent sessions (AsyncSession each)
TrackIds == {"a", "b"}                \* spotify_id values of Spec
Pops == {1}                           \* popularity values of Spec
None == "None"                        \* Python None / SQL NULL / no row

Track(i, p) == [spotify_id |-> i, popularity |-> p]

Range(f) == {f[x] : x \in DOMAIN f}

\* A catalog is the content of tracks_<artist> in row order; spotify_id is
\* the primary key, so the ids of a catalog are pairwise distinct.
IsCatalog(s) == \A i, j \in DOMAIN s : i # j => s[i].spotify_id # s[j].spotify_id

Catalogs(ids, pops) ==
    {s \in UNION {[1..n -> {Track(i, p) : i \in ids, p \in pops}]
                    : n \in 0..Cardinality(ids)} : IsCatalog(s)}

AllCatalogs == Catalogs(TrackIds, Pops)

\* the catalogs RootSpec starts from
RootCatalogs == Catalogs({"a", "b", "c"}, {10, 50, 90})

\* ------------------------------------------------------------ pure helpers
RECURSIVE BitOr(_, _)
BitOr(a, b) ==
    IF a = 0 THEN b
    ELSE IF b = 0 THEN a
    ELSE (IF a % 2 = 1 \/ b % 2 = 1 THEN 1 ELSE 0) + 2 * BitOr(a \div 2, b \div 2)

\* the shift left out: current_path | bit
ShiftLeft_NoShift(n, k) == n

ShiftLeft(n, k) == n * (2 ^ k)

\* the vote bit inverted: 1 for rejected, 0 for liked
NextPath_InvertedBit(current_path, liked) ==
    BitOr(ShiftLeft(current_path, 1), IF liked THEN 0 ELSE 1)

\* next_path = (current_path << 1) | (1 if liked else 0)
NextPath(current_path, liked) ==
    BitOr(ShiftLeft(current_path, 1), IF liked THEN 1 ELSE 0)

\* Python max(tracks, key=lambda t: t.popularity): scans left to right and
\* replaces the running maximum only by a strictly greater key.
RECURSIVE MaxScan(_, _, _)
MaxScan(s, i, best) ==
    IF i > Len(s) THEN best
    ELSE MaxScan(s, i + 1,
                 IF s[i].popularity > s[best].popularity THEN i ELSE best)

\* the last track of maximum popularity instead of the first
MaxByPopularity_LastMax(s) ==
    s[CHOOSE i \in DOMAIN s :
        \A j \in DOMAIN s : /\ s[j].popularity <= s[i].popularity
                             /\ (s[j].popularity = s[i].popularity => j <= i)]

MaxByPopularity(s) == s[MaxScan(s, 2, 1)]

\* TrackManager.get_track: the row of the catalog with that id, or None
GetTrack(catalog, track_id) ==
    IF \E i \in DOMAIN catalog : catalog[i].spotify_id = track_id
    THEN track_id
    ELSE None

\* the filter on used_track_ids left out
AvailableTracks_Unfiltered(all_tracks, used_track_ids) == all_tracks

\* available_tracks = [t for t in all_tracks if t.spotify_id not in used]
AvailableTracks(all_tracks, used_track_ids) ==
    SelectSeq(all_tracks, LAMBDA t : t.spotify_id \notin used_track_ids)

\* ------------------------------------------------------------------- state
VARIABLES
    tracks,      \* rows of tracks_<artist>, in row order (the catalog)
    recs,        \* rows of recommendations_<artist>: path_id -> track_id
    rec_table,   \* recommendations_<artist> has been created
    pc,          \* per session: the awaited statement it is about to run
    frame,       \* per session: locals of the running call
    returned,    \* history: <<path, track>> pairs get_next has returned
    syncs,       \* number of update_tracks commits so far
    calls,       \* number of calls started so far
    path_in,     \* PathSpec: two (current_path, liked) inputs
    path_out,    \* PathSpec: the next_path computed from each input, or 0
    artists,     \* rows of the artists table of songs.db: spotify_id -> row
    song_tables, \* the songs_* tables of songs.db: table name -> rows
    now,         \* datetime.now(), in days
    gpc,         \* per gate task: the awaited statement it is about to run
    gframe,      \* per gate task: locals of the running call
    gcalls,      \* number of gate / get_or_create_artist calls started
    ticks,       \* number of clock advances so far
    upc,         \* SyncSpec: the statement update_tracks is about to run
    uframe,      \* SyncSpec: locals and statement counts of update_tracks
    pending,     \* SyncSpec: the rows as the updating session sees them
    got,         \* SyncSpec: what the last get_tracks returned
    updates,     \* SyncSpec: number of update_tracks calls started
    store,       \* Redis: key -> value and expiry time
    rclock,      \* the Redis clock, in seconds
    rticks,      \* number of advances of the Redis clock
    created,     \* search ids start_search has handed out
    spc,         \* per stream: where its generator is suspended
    sframe,      \* per stream: locals and history of the run
    sruns,       \* number of stream runs opened
    vote_req,    \* VoteSpec: the body of the last /api/vote request
    vote_resp,   \* VoteSpec: the answer to it
    written,     \* StoreSpec, history: per key, its last write and its fate
    reply,       \* StoreSpec: the last manager call and what it returned
    track_tables, \* TableSpec: the tracks_* tables of songs.db by name
    rec_tables,  \* TableSpec: the recommendations_* tables of songs.db by name
    table_call,  \* TableSpec: the last manager call, its artist and outcome
    table_calls, \* TableSpec: number of manager calls so far
    nav,         \* NavSpec: a tree, a vote history and the two navigations
    dep          \* DepSpec: per request, its get_db generator and session

vars == <<tracks, recs, rec_table, pc, frame, returned, syncs, calls,
          path_in, path_out, artists, song_tables, now, gpc, gframe, gcalls,
          ticks, upc, uframe, pending, got, updates, store, rclock, rticks,
          created, spc, sframe, sruns, vote_req, vote_resp, written, reply,
          track_tables, rec_tables, table_call, table_calls, nav, dep>>

gateVars == <<artists, song_tables, now, gpc, gframe, gcalls, ticks>>

recVars == <<tracks, recs, rec_table, pc, frame, returned, syncs, calls>>
pathVars == <<path_in, path_out>>
syncVars == <<upc, uframe, pending, got, updates>>
streamVars == <<store, rclock, rticks, created, spc, sframe, sruns>>
voteVars == <<vote_req, vote_resp>>
storeVars == <<written, reply>>
tableVars == <<track_tables, rec_tables, table_call, table_calls>>
navVars == <<nav>>
depVars == <<dep>>

NoRecs == [x \in {} |-> None]

IdleFrame ==
    [op |-> "none", current_path |-> 0, liked |-> FALSE, next_path |-> 0,
     existing_track_id |-> None, used_track_ids |-> {}, candidate |-> None,
     result |-> None, raised |-> "none", seen |-> {}, overlaps |-> {}]

\* sessions whose call is running (started, not yet returned or raised)
InFlight == {q \in Procs : pc[q] \notin {"idle", "done"}}

\* session p starts a call with locals f; `overlaps` (history) records, for
\* every running call, the sessions whose current call ran at the same time
Begin(p, f) ==
    frame' = [q \in Procs |->
                IF q = p THEN [f EXCEPT !.overlaps = InFlight]
                ELSE IF q \in InFlight
                     THEN [frame[q] EXCEPT !.overlaps = @ \cup {p}]
                     ELSE frame[q]]

\* the call of session p ends: it returns `result` or raises `raised`
Finish(p, result, raised) ==
    /\ pc' = [pc EXCEPT ![p] = "done"]
    /\ frame' = [frame EXCEPT ![p].result = result, ![p].raised = raised]
    /\ returned' =
         IF frame[p].op = "next" /\ raised = "none" /\ result # None
         THEN returned \cup {<<frame[p].next_path, result>>}
         ELSE returned

RecInit ==
    /\ tracks = <<>>
    /\ recs = NoRecs
    /\ rec_table = FALSE
    /\ pc = [p \in Procs |-> "idle"]
    /\ frame = [p \in Procs |-> IdleFrame]
    /\ returned = {}
    /\ syncs = 0
    /\ calls = 0

\* ------------------------------------------------- TrackManager.update_tracks
\* delete(table) and the inserts run in one transaction that becomes visible
\* to the other sessions at the commit.
update_tracks(new_tracks) ==
    /\ syncs < MaxSyncs
    /\ syncs' = syncs + 1
    /\ tracks' = new_tracks
    /\ UNCHANGED <<recs, rec_table, pc, frame, returned, calls>>

\* --------------------------- RecommendationManager.get_initial_recommendation
\* a session whose previous call (if any) has ended calls get_root, which
\* runs up to the end of its first statement,
\* await RecommendationManager.ensure_table_exists(db, artist_id)
StartRoot(p) ==
    /\ pc[p] \in {"idle", "done"}
    /\ calls < MaxCalls
    /\ calls' = calls + 1
    /\ rec_table' = TRUE
    /\ pc' = [pc EXCEPT ![p] = "r_select"]
    /\ Begin(p, [IdleFrame EXCEPT !.op = "root"])
    /\ UNCHANGED <<tracks, recs, returned, syncs>>

\* select(table.c.track_id).where(table.c.path_id == 1)
RootSelect(p) ==
    /\ pc[p] = "r_select"
    /\ LET existing == IF 1 \in DOMAIN recs THEN recs[1] ELSE None IN
         /\ frame' = [frame EXCEPT ![p].existing_track_id = existing]
         /\ pc' = [pc EXCEPT ![p] = IF existing # None THEN "r_get_track"
                                                      ELSE "r_get_tracks"]
    /\ UNCHANGED <<tracks, recs, rec_table, returned, syncs, calls>>

\* a get_root that falls through to the catalog when the track of the node
\* is missing
RootGetTrack_Fallback(p) ==
    /\ pc[p] = "r_get_track"
    /\ LET existing_track == GetTrack(tracks, frame[p].existing_track_id) IN
         IF existing_track = None
         THEN /\ pc' = [pc EXCEPT ![p] = "r_get_tracks"]
              /\ UNCHANGED <<frame, returned>>
         ELSE Finish(p, existing_track, "none")
    /\ UNCHANGED <<tracks, recs, rec_table, syncs, calls>>

\* existing_track = await TrackManager.get_track(...); raise if not found
RootGetTrack(p) ==
    /\ pc[p] = "r_get_track"
    /\ LET existing_track == GetTrack(tracks, frame[p].existing_track_id) IN
         IF existing_track = None
         THEN Finish(p, None, "ValueError")
         ELSE Finish(p, existing_track, "none")
    /\ UNCHANGED <<tracks, recs, rec_table, syncs, calls>>

\* a get_root that returns None for an empty catalog
RootGetTracks_ReturnNone(p) ==
    /\ pc[p] = "r_get_tracks"
    /\ IF tracks = <<>>
       THEN Finish(p, None, "none")
       ELSE /\ frame' = [frame EXCEPT
                           ![p].candidate = MaxByPopularity(tracks).spotify_id]
            /\ pc' = [pc EXCEPT ![p] = "r_insert"]
            /\ UNCHANGED returned
    /\ UNCHANGED <<tracks, recs, rec_table, syncs, calls>>

\* tracks = await TrackManager.get_tracks(...); initial_track = max(...)
RootGetTracks(p) ==
    /\ pc[p] = "r_get_tracks"
    /\ IF tracks = <<>>
       THEN Finish(p, None, "ValueError")
       ELSE /\ frame' = [frame EXCEPT
                           ![p].candidate = MaxByPopularity(tracks).spotify_id]
            /\ pc' = [pc EXCEPT ![p] = "r_insert"]
            /\ UNCHANGED returned
    /\ UNCHANGED <<tracks, recs, rec_table, syncs, calls>>

\* INSERT OR REPLACE instead of ON CONFLICT DO NOTHING
InsertIgnore_Replace(table, path, track_id) ==
    [x \in DOMAIN table \cup {path} |-> IF x = path THEN track_id ELSE table[x]]

\* INSERT ... ON CONFLICT DO NOTHING of (1, track_id)
InsertIgnore(table, path, track_id) ==
    IF path \in DOMAIN table THEN table ELSE table @@ (path :> track_id)

\* try: build the insert, execute, commit / except: ... ; return initial_track
\* Either the try body completes, or something in it raises (the imported
\* generic insert() has no on_conflict_do_nothing, the execute or the commit
\* fails) and the bare except swallows it; the candidate is returned anyway.
RootInsert(p) ==
    /\ pc[p] = "r_insert"
    /\ \/ recs' = InsertIgnore(recs, 1, frame[p].candidate)
       \/ recs' = recs
    /\ Finish(p, frame[p].candidate, "none")
    /\ UNCHANGED <<tracks, rec_table, syncs, calls>>

\* ------------------------------ RecommendationManager.get_next_recommendation
\* a session whose previous call (if any) has ended calls get_next, which
\* computes next_path before its first statement
StartNext(p, current_path, liked) ==
    /\ pc[p] \in {"idle", "done"}
    /\ calls < MaxCalls
    /\ calls' = calls + 1
    /\ pc' = [pc EXCEPT ![p] = "n_select"]
    /\ LET next_path == NextPath(current_path, liked) IN
         Begin(p, [IdleFrame EXCEPT !.op = "next",
                                    !.current_path = current_path,
                                    !.liked = liked,
                                    !.next_path = next_path,
                                    !.seen = {r[2] : r \in
                                       {q \in returned : q[1] = next_path}}])
    /\ UNCHANGED <<tracks, recs, rec_table, returned, syncs>>

\* select(table.c.track_id).where(table.c.path_id == next_path); the table is
\* only ever created by get_initial_recommendation
NextSelect(p) ==
    /\ pc[p] = "n_select"
    /\ IF ~rec_table
       THEN Finish(p, None, "OperationalError")
       ELSE LET existing == IF frame[p].next_path \in DOMAIN recs
                            THEN recs[frame[p].next_path] ELSE None IN
              /\ frame' = [frame EXCEPT ![p].existing_track_id = existing]
              /\ pc' = [pc EXCEPT ![p] = IF existing # None THEN "n_get_track"
                                                           ELSE "n_used"]
              /\ UNCHANGED returned
    /\ UNCHANGED <<tracks, recs, rec_table, syncs, calls>>

\* return await TrackManager.get_track(...)
NextGetTrack(p) ==
    /\ pc[p] = "n_get_track"
    /\ Finish(p, GetTrack(tracks, frame[p].existing_track_id), "none")
    /\ UNCHANGED <<tracks, recs, rec_table, syncs, calls>>

\* used_track_ids = (await db.execute(select(table.c.track_id))).scalars().all()
NextUsed(p) ==
    /\ pc[p] = "n_used"
    /\ frame' = [frame EXCEPT ![p].used_track_ids = Range(recs)]
    /\ pc' = [pc EXCEPT ![p] = "n_get_tracks"]
    /\ UNCHANGED <<tracks, recs, rec_table, returned, syncs, calls>>

\* all_tracks = await get_tracks(...); available_tracks; random.choice
NextGetTracks(p) ==
    /\ pc[p] = "n_get_tracks"
    /\ LET available_tracks == AvailableTracks(tracks, frame[p].used_track_ids) IN
         IF available_tracks = <<>>
         THEN Finish(p, None, "none")
         ELSE /\ \E i \in DOMAIN available_tracks :
                   frame' = [frame EXCEPT
                               ![p].candidate = available_tracks[i].spotify_id]
              /\ pc' = [pc EXCEPT ![p] = "n_insert"]
              /\ UNCHANGED returned
    /\ UNCHANGED <<tracks, recs, rec_table, syncs, calls>>

\* an insert that overwrites the row of the path and returns its candidate
NextInsert_Overwrite(p) ==
    /\ pc[p] = "n_insert"
    /\ recs' = InsertIgnore_Replace(recs, frame[p].next_path, frame[p].candidate)
    /\ Finish(p, frame[p].candidate, "none")
    /\ UNCHANGED <<tracks, rec_table, syncs, calls>>

\* insert(table).values(path_id=next_path, ...); commit; return next_track
\* path_id is the primary key: a second row for the path raises IntegrityError
NextInsert(p) ==
    /\ pc[p] = "n_insert"
    /\ IF frame[p].next_path \in DOMAIN recs
       THEN /\ recs' = recs
            /\ Finish(p, None, "IntegrityError")
       ELSE /\ recs' = recs @@ (frame[p].next_path :> frame[p].candidate)
            /\ Finish(p, frame[p].candidate, "none")
    /\ UNCHANGED <<tracks, rec_table, syncs, calls>>

RecNext ==
    \/ \E t \in AllCatalogs : update_tracks(t)
    \/ \E p \in Procs : StartRoot(p)
    \/ \E p \in Procs : RootSelect(p)
    \/ \E p \in Procs : RootGetTrack(p)
    \/ \E p \in Procs : RootGetTracks(p)
    \/ \E p \in Procs : RootInsert(p)
    \/ \E p \in Procs, cp \in 1..MaxCurrentPath, l \in BOOLEAN : StartNext(p, cp, l)
    \/ \E p \in Procs : NextSelect(p)
    \/ \E p \in Procs : NextGetTrack(p)
    \/ \E p \in Procs : NextUsed(p)
    \/ \E p \in Procs : NextGetTracks(p)
    \/ \E p \in Procs : NextInsert(p)

\* ------------------------------------------------- the catalog freshness gate
GateProcs == {"g1", "g2"}

\* strings that are rewritten character by character are sequences of characters
Str_x == <<"x">>
Str_Artist_x == <<"A", "r", "t", "i", "s", "t", "_", "x">>

\* (spotify_id, artist_name) arguments; start_search names the artist
\* f"Artist_{spotify_id}"
GateInputs == {[spotify_id |-> Str_x, artist_name |-> Str_Artist_x]}

\* the steps the clock advances by
TickSteps == {1, 14}

\* timedelta(weeks=2), in days
TwoWeeks == 14

\* str.replace(old, new) for single characters
Replace(str, old, new) == [i \in DOMAIN str |-> IF str[i] = old THEN new ELSE str[i]]

\* f"songs_{spotify_id.replace('.', '_')}"
sanitize_table_name(spotify_id) ==
    <<"s", "o", "n", "g", "s", "_">> \o Replace(spotify_id, ".", "_")

\* the songs the stubbed sync provider of search_songs_for_artist returns
StubSongs == <<[spotify_id |-> "abc123", popularity |-> 75],
               [spotify_id |-> "def456", popularity |-> 80]>>

NoRows == [x \in {} |-> None]

\* a NULL last_updated column (the clock never reads below 0)
NullTime == 0 - 1

\* a NULL table_name column
NullName == <<>>

GIdleFrame ==
    [op |-> "none", spotify_id |-> <<>>, artist_name |-> <<>>,
     table_name |-> <<>>, needs_update |-> FALSE, observed |-> "unread",
     observed_last |-> NullTime, checked_at |-> 0, syncs |-> 0,
     stored |-> <<>>, result |-> <<>>, raised |-> "none", overlaps |-> {}]

GateInit ==
    /\ artists = NoRows
    /\ song_tables = NoRows
    /\ now = 0
    /\ gpc = [g \in GateProcs |-> "idle"]
    /\ gframe = [g \in GateProcs |-> GIdleFrame]
    /\ gcalls = 0
    /\ ticks = 0

GInFlight == {h \in GateProcs : gpc[h] \notin {"idle", "done"}}

GBegin(g, f) ==
    /\ gpc[g] \in {"idle", "done"}
    /\ gcalls < MaxGateCalls
    /\ gcalls' = gcalls + 1
    /\ gframe' = [h \in GateProcs |->
                    IF h = g THEN [f EXCEPT !.overlaps = GInFlight]
                    ELSE IF h \in GInFlight
                         THEN [gframe[h] EXCEPT !.overlaps = @ \cup {g}]
                         ELSE gframe[h]]

GFinish(g, f, raised) ==
    /\ gpc' = [gpc EXCEPT ![g] = "done"]
    /\ gframe' = [gframe EXCEPT ![g] = [f EXCEPT !.raised = raised]]

\* CREATE TABLE IF NOT EXISTS {table_name}
ensure_artist_table(tables, table_name) ==
    IF table_name \in DOMAIN tables THEN tables ELSE tables @@ (table_name :> <<>>)

\* datetime.fromisoformat(result[0]): a timestamp written by isoformat() is
\* read back unchanged; None is not a string and raises TypeError
FromIsoFormat(text) == [raises |-> text = NullTime, value |-> text]

\* search_songs_for_artist(spotify_id, artist_name) is called
StartGate(g, in) ==
    /\ GBegin(g, [GIdleFrame EXCEPT !.op = "gate",
                                    !.spotify_id = in.spotify_id,
                                    !.artist_name = in.artist_name,
                                    !.table_name = sanitize_table_name(in.spotify_id)])
    /\ gpc' = [gpc EXCEPT ![g] = "c_select"]
    /\ UNCHANGED <<artists, song_tables, now, ticks>>

\* check_artist_status: SELECT last_updated FROM artists WHERE spotify_id = ?
CheckSelect(g) ==
    /\ gpc[g] = "c_select"
    /\ LET f == gframe[g] IN
       IF f.spotify_id \notin DOMAIN artists
       THEN /\ gframe' = [gframe EXCEPT ![g].observed = "absent",
                                        ![g].checked_at = now]
            /\ gpc' = [gpc EXCEPT ![g] = "c_insert"]
       ELSE LET parsed == FromIsoFormat(artists[f.spotify_id].last_updated)
                seen == [f EXCEPT !.observed = "present",
                                  !.observed_last = artists[f.spotify_id].last_updated,
                                  !.checked_at = now]
            IN IF parsed.raises
               THEN GFinish(g, seen, "TypeError")
               ELSE LET last_updated == parsed.value
                        two_weeks_ago == now - TwoWeeks
                        needs_update == last_updated < two_weeks_ago
                    IN /\ gframe' = [gframe EXCEPT ![g] =
                                       [seen EXCEPT !.needs_update = needs_update,
                                                    !.syncs = IF needs_update
                                                              THEN @ + 1 ELSE @]]
                       /\ gpc' = [gpc EXCEPT ![g] = IF needs_update
                                                    THEN "u_update" ELSE "s_select"]
    /\ UNCHANGED <<artists, song_tables, now, gcalls, ticks>>

\* check_artist_status, new artist: INSERT INTO artists (..., last_updated =
\* now), ensure_artist_table and its commit; returns (True, table_name)
CheckInsert(g) ==
    /\ gpc[g] = "c_insert"
    /\ LET f == gframe[g] IN
       IF f.spotify_id \in DOMAIN artists
       THEN /\ GFinish(g, f, "IntegrityError")
            /\ UNCHANGED <<artists, song_tables>>
       ELSE /\ artists' = artists @@
                  (f.spotify_id :> [name |-> f.artist_name,
                                    table_name |-> f.table_name,
                                    last_updated |-> now])
            /\ song_tables' = ensure_artist_table(song_tables, f.table_name)
            /\ gframe' = [gframe EXCEPT ![g].needs_update = TRUE,
                                        ![g].syncs = @ + 1]
            /\ gpc' = [gpc EXCEPT ![g] = "u_update"]
    /\ UNCHANGED <<now, gcalls, ticks>>

\* update_artist_songs: UPDATE artists SET last_updated = now WHERE name = ?,
\* ensure_artist_table(sanitize_table_name(artist_name)) and its commit
UpdateTimestamp(g) ==
    /\ gpc[g] = "u_update"
    /\ LET f == gframe[g] IN
         /\ artists' = [a \in DOMAIN artists |->
                          IF artists[a].name = f.artist_name
                          THEN [artists[a] EXCEPT !.last_updated = now]
                          ELSE artists[a]]
         /\ song_tables' = ensure_artist_table(song_tables,
                                               sanitize_table_name(f.artist_name))
    /\ gpc' = [gpc EXCEPT ![g] = "u_replace"]
    /\ UNCHANGED <<now, gframe, gcalls, ticks>>

\* update_artist_songs: DELETE FROM {table_name}, INSERT OR REPLACE of every
\* song, commit; `stored` (history) keeps the rows this sync stored
UpdateSongs(g) ==
    /\ gpc[g] = "u_replace"
    /\ song_tables' = [song_tables EXCEPT
                         ![sanitize_table_name(gframe[g].artist_name)] = StubSongs]
    /\ gframe' = [gframe EXCEPT ![g].stored = StubSongs]
    /\ gpc' = [gpc EXCEPT ![g] = "s_select"]
    /\ UNCHANGED <<artists, now, gcalls, ticks>>

\* a statement of update_artist_songs raises (sqlite3.OperationalError such
\* as "database is locked", or a song without "title"): the exception leaves
\* the `async with`, which closes the connection; what was committed stays,
\* what was not committed is discarded
UpdateFails(g) ==
    /\ gpc[g] \in {"u_update", "u_replace"}
    /\ GFinish(g, gframe[g], "SyncError")
    /\ UNCHANGED <<artists, song_tables, now, gcalls, ticks>>

\* search_songs_for_artist: SELECT ... FROM {table_name} and return the rows
SelectSongs(g) ==
    /\ gpc[g] = "s_select"
    /\ LET f == gframe[g] IN
       IF f.table_name \notin DOMAIN song_tables
       THEN GFinish(g, f, "OperationalError")
       ELSE GFinish(g, [f EXCEPT !.result = song_tables[f.table_name]], "none")
    /\ UNCHANGED <<artists, song_tables, now, gcalls, ticks>>

\* database.get_or_create_artist(db, spotify_id, name) is called
StartCreate(g, in) ==
    /\ GBegin(g, [GIdleFrame EXCEPT !.op = "create",
                                    !.spotify_id = in.spotify_id,
                                    !.artist_name = in.artist_name])
    /\ gpc' = [gpc EXCEPT ![g] = "a_select"]
    /\ UNCHANGED <<artists, song_tables, now, ticks>>

\* get_or_create_artist: select(Artist).where(Artist.spotify_id == spotify_id)
CreateSelect(g) ==
    /\ gpc[g] = "a_select"
    /\ IF gframe[g].spotify_id \in DOMAIN artists
       THEN GFinish(g, [gframe[g] EXCEPT !.observed = "present"], "none")
       ELSE /\ gpc' = [gpc EXCEPT ![g] = "a_insert"]
            /\ gframe' = [gframe EXCEPT ![g].observed = "absent"]
    /\ UNCHANGED <<artists, song_tables, now, gcalls, ticks>>

\* get_or_create_artist: db.add(Artist(..., last_updated=None)); commit
CreateInsert(g) ==
    /\ gpc[g] = "a_insert"
    /\ LET f == gframe[g] IN
       IF f.spotify_id \in DOMAIN artists
       THEN /\ GFinish(g, f, "IntegrityError")
            /\ UNCHANGED artists
       ELSE /\ artists' = artists @@
                  (f.spotify_id :> [name |-> f.artist_name,
                                    table_name |-> NullName,
                                    last_updated |-> NullTime])
            /\ GFinish(g, f, "none")
    /\ UNCHANGED <<song_tables, now, gcalls, ticks>>

\* time passes
Tick(d) ==
    /\ ticks < MaxTicks
    /\ ticks' = ticks + 1
    /\ now' = now + d
    /\ UNCHANGED <<artists, song_tables, gpc, gframe, gcalls>>

GateNext ==
    /\ \/ \E g \in GateProcs, in \in GateInputs : StartGate(g, in)
       \/ \E g \in GateProcs : CheckSelect(g)
       \/ \E g \in GateProcs : CheckInsert(g)
       \/ \E g \in GateProcs : UpdateTimestamp(g)
       \/ \E g \in GateProcs : UpdateSongs(g)
       \/ \E g \in GateProcs : UpdateFails(g)
       \/ \E g \in GateProcs : SelectSongs(g)
       \/ \E g \in GateProcs, in \in GateInputs : StartCreate(g, in)
       \/ \E g \in GateProcs : CreateSelect(g)
       \/ \E g \in GateProcs : CreateInsert(g)
       \/ \E d \in TickSteps : Tick(d)
    /\ UNCHANGED <<recVars, pathVars, syncVars, streamVars, voteVars, storeVars,
                   tableVars, navVars, depVars>>

\* ------------------------------ TrackManager.update_tracks, by its statements
\* the track lists update_tracks is called with; a list may name a spotify_id
\* twice
UpdateInputs ==
    UNION {[1..n -> {Track(i, p) : i \in TrackIds, p \in Pops}] : n \in 0..2}

UIdleFrame ==
    [tracks |-> <<>>, i |-> 1, deletes |-> 0, inserts |-> 0, commits |-> 0,
     raised |-> "none", before |-> <<>>]

\* no get_tracks since update_tracks was last called or last committed
Unread == [read |-> FALSE, rows |-> <<>>]

SyncIdle ==
    /\ upc = "idle"
    /\ updates = 0
    /\ uframe = UIdleFrame
    /\ pending = <<>>
    /\ got = Unread

\* delete(table) without a WHERE clause, that keeps the rows
DeleteAll_Keep(rows) == rows

\* delete(table) without a WHERE clause
DeleteAll(rows) == <<>>

\* update_tracks(db, artist_id, tracks) is called; `before` (history) keeps
\* the rows stored at that moment
StartUpdate(new_tracks) ==
    /\ upc \in {"idle", "done"}
    /\ updates < MaxUpdates
    /\ updates' = updates + 1
    /\ upc' = "t_ensure"
    /\ uframe' = [UIdleFrame EXCEPT !.tracks = new_tracks, !.before = tracks]
    /\ pending' = tracks
    /\ got' = Unread
    /\ UNCHANGED tracks

\* await TrackManager.ensure_table_exists(db, artist_id): create the table if
\* it is missing, then await db.commit()
UpdateEnsureTable ==
    /\ upc = "t_ensure"
    /\ uframe' = [uframe EXCEPT !.commits = @ + 1]
    /\ upc' = "t_delete"
    /\ UNCHANGED <<tracks, pending, got, updates>>

\* _ = await db.execute(delete(table)), inside the session's transaction
UpdateDelete ==
    /\ upc = "t_delete"
    /\ pending' = DeleteAll(pending)
    /\ uframe' = [uframe EXCEPT !.deletes = @ + 1]
    /\ upc' = IF uframe.tracks = <<>> THEN "t_commit" ELSE "t_insert"
    /\ UNCHANGED <<tracks, got, updates>>

\* one turn of the for loop: await db.execute(insert(table).values(...));
\* spotify_id is the primary key, a second row with the id raises
\* IntegrityError, which leaves update_tracks before its commit
UpdateInsert ==
    /\ upc = "t_insert"
    /\ LET track == uframe.tracks[uframe.i] IN
       IF track.spotify_id \in {pending[k].spotify_id : k \in DOMAIN pending}
       THEN /\ uframe' = [uframe EXCEPT !.inserts = @ + 1,
                                        !.raised = "IntegrityError"]
            /\ upc' = "done"
            /\ pending' = tracks
       ELSE /\ pending' = Append(pending, track)
            /\ uframe' = [uframe EXCEPT !.inserts = @ + 1, !.i = @ + 1]
            /\ upc' = IF uframe.i = Len(uframe.tracks) THEN "t_commit"
                                                       ELSE "t_insert"
    /\ UNCHANGED <<tracks, got, updates>>

\* await db.commit(): the delete and the inserts become the stored rows
UpdateCommit ==
    /\ upc = "t_commit"
    /\ tracks' = pending
    /\ uframe' = [uframe EXCEPT !.commits = @ + 1]
    /\ upc' = "done"
    /\ got' = Unread
    /\ UNCHANGED <<pending, updates>>

\* TrackManager.get_tracks(db, artist_id) on another session: the committed
\* rows, one TrackResponse per row
GetTracks ==
    /\ got' = [read |-> TRUE, rows |-> tracks]
    /\ got # got'
    /\ UNCHANGED <<tracks, upc, uframe, pending, updates>>

SyncNext ==
    /\ \/ \E t \in UpdateInputs : StartUpdate(t)
       \/ UpdateEnsureTable
       \/ UpdateDelete
       \/ UpdateInsert
       \/ UpdateCommit
       \/ GetTracks
    /\ UNCHANGED <<recs, rec_table, pc, frame, returned, syncs, calls,
                   pathVars, gateVars, streamVars, voteVars, storeVars,
                   tableVars, navVars, depVars>>

\* --------------------------------------- the Redis store and its two managers
SearchIds == {"q1", "q2"}             \* search ids (uuid4 strings)
Streams == {"e1", "e2"}               \* concurrent runs of event_generator

\* self.expire_time = 3600, in seconds
ExpireTime == 3600

\* the steps the Redis clock advances by, in seconds (half a TTL)
RedisTickSteps == {1800}

\* one key per id, whatever the kind of the record
Key_Unprefixed(kind, id) == <<"record", id>>

\* f"search:{search_id}" and f"session:{search_id}"
Key(kind, id) == <<kind, id>>

NoKeys == [k \in {} |-> None]

\* a key Redis still serves: set, and not yet expired
Live(key) == key \in DOMAIN store /\ rclock < store[key].expires_at

\* a write that leaves an existing key as it is (SET ... NX)
SetEx_IfAbsent(st, key, ttl, value) ==
    IF key \in DOMAIN st THEN st
    ELSE [k \in DOMAIN st \cup {key} |->
            IF k = key THEN [value |-> value, expires_at |-> rclock + ttl]
            ELSE st[k]]

\* redis.setex(key, expire_time, value): write or overwrite, expiry restarted
SetEx(st, key, ttl, value) ==
    [k \in DOMAIN st \cup {key} |->
        IF k = key THEN [value |-> value, expires_at |-> rclock + ttl]
        ELSE st[k]]

\* redis.delete(key), that keeps the key
Delete_Keep(st, key) == st

\* redis.delete(key)
Delete(st, key) == [k \in DOMAIN st \ {key} |-> st[k]]

NoValue == [none |-> TRUE]

\* redis.get(key): the value, or None for a missing or expired key
Get(key) == IF Live(key) THEN store[key].value ELSE NoValue

\* Song(song_id, title, artists, ...) of create_mock_decision_tree, to_dict()
Song(song_id, artist_name) == [song_id |-> song_id, artists |-> <<artist_name>>]

NoNode == [none |-> TRUE]

TreeNode(song, vote_no, vote_yes) ==
    [song |-> song, vote_no |-> vote_no, vote_yes |-> vote_yes]

\* create_mock_decision_tree(artist_name)
create_mock_decision_tree(artist_name) ==
    TreeNode(Song("0", artist_name),
             TreeNode(Song("1", artist_name),
                      TreeNode(Song("2", artist_name), NoNode, NoNode),
                      TreeNode(Song("3", artist_name), NoNode, NoNode)),
             TreeNode(Song("4", artist_name),
                      TreeNode(Song("5", artist_name), NoNode, NoNode),
                      TreeNode(Song("6", artist_name), NoNode, NoNode)))

\* SessionManager._serialize_tree: song, "left" from vote_no, "right" from
\* vote_yes
RECURSIVE _serialize_tree(_)
_serialize_tree(node) ==
    IF node = NoNode THEN NoNode
    ELSE [song |-> node.song,
          left |-> _serialize_tree(node.vote_no),
          right |-> _serialize_tree(node.vote_yes)]

\* the messages of the stream
SearchingMessage == [status |-> "searching", progress |-> 0]

\* a completed message that carries the song of the vote_yes child
CompletedMessage_YesSong(tree, spotify_id, artist_name) ==
    [status |-> "completed", song |-> tree.vote_yes.song,
     artistId |-> spotify_id, artistName |-> artist_name]

CompletedMessage(tree, spotify_id, artist_name) ==
    [status |-> "completed", song |-> tree.song, artistId |-> spotify_id,
     artistName |-> artist_name]

\* an error message whose type is a fixed word
ErrorMessage_Untyped(type, message) ==
    [status |-> "error", type |-> "Exception", message |-> message]

ErrorMessage(type, message) ==
    [status |-> "error", type |-> type, message |-> message]

\* f"Search {search_id} not found"
NotFoundText(search_id) == <<"Search ", search_id, " not found">>

\* str(KeyError(text)) that loses the text
StrKeyError_Empty(text) == <<"'", "'">>

\* str(KeyError(text)): the repr of the text, in quotes
StrKeyError(text) == <<"'">> \o text \o <<"'">>

\* ------------------------------------------------------------ event_generator
\* the connection each stream's search_songs_for_artist call runs on
GateOf(e) == IF e = "e1" THEN "g1" ELSE "g2"

\* locals of a run, and history: `msgs` the messages the consumer received,
\* `log` the operations of the run in the order the code ran them
SIdleFrame ==
    [search_id |-> "", spotify_id |-> <<>>, artist_name |-> <<>>,
     msgs |-> <<>>, log |-> <<>>, deletes |-> 0, abandoned |-> FALSE,
     session_expires |-> 0]

StreamIdle ==
    /\ store = NoKeys
    /\ rclock = 0
    /\ rticks = 0
    /\ created = {}
    /\ spc = [e \in Streams |-> "idle"]
    /\ sframe = [e \in Streams |-> SIdleFrame]
    /\ sruns = 0

\* start_search: a fresh uuid4, create_search under it
start_search(id, spotify_id) ==
    /\ id \notin created
    /\ created' = created \cup {id}
    /\ store' = SetEx(store, Key("search", id), ExpireTime,
                      [spotify_id |-> spotify_id,
                       artist_name |-> <<"A", "r", "t", "i", "s", "t", "_">>
                                          \o spotify_id])
    /\ UNCHANGED <<rclock, rticks, spc, sframe, sruns, gateVars>>

\* a generator that looks the search up before its first yield
OpenStream_LookupFirst(e, id) ==
    /\ spc[e] \in {"idle", "closed"}
    /\ sruns < MaxStreamRuns
    /\ sruns' = sruns + 1
    /\ sframe' = [sframe EXCEPT ![e] =
                    [SIdleFrame EXCEPT !.search_id = id,
                                       !.msgs = <<SearchingMessage>>,
                                       !.log = <<"get_search", "searching">>]]
    /\ spc' = [spc EXCEPT ![e] = "y_searching"]
    /\ UNCHANGED <<store, rclock, rticks, created, gateVars>>

\* the consumer asks for the first message: the generator runs up to
\* yield searching
OpenStream(e, id) ==
    /\ spc[e] \in {"idle", "closed"}
    /\ sruns < MaxStreamRuns
    /\ sruns' = sruns + 1
    /\ sframe' = [sframe EXCEPT ![e] =
                    [SIdleFrame EXCEPT !.search_id = id,
                                       !.msgs = <<SearchingMessage>>,
                                       !.log = <<"searching">>]]
    /\ spc' = [spc EXCEPT ![e] = "y_searching"]
    /\ UNCHANGED <<store, rclock, rticks, created, gateVars>>

\* an exception handler that yields nothing
YieldError_Silent(e, f, type, message) ==
    /\ sframe' = [sframe EXCEPT ![e] = [f EXCEPT !.log = Append(@, "error")]]
    /\ spc' = [spc EXCEPT ![e] = "y_error"]

\* an exception reaches `except Exception`: yield the error message
YieldError(e, f, type, message) ==
    /\ sframe' = [sframe EXCEPT ![e] =
                    [f EXCEPT !.msgs = Append(@, ErrorMessage(type, message)),
                              !.log = Append(@, "error")]]
    /\ spc' = [spc EXCEPT ![e] = "y_error"]

NoField == <<>>

\* search_data["spotify_id"], search_data["artist_name"]: the first key the
\* decoded record lacks (its lookup raises KeyError), or NoField
MissingField(search_data) ==
    IF "spotify_id" \notin DOMAIN search_data THEN <<"spotify_id">>
    ELSE IF "artist_name" \notin DOMAIN search_data THEN <<"artist_name">>
    ELSE NoField

\* the consumer asks for the next message after searching: get_search, then
\* either KeyError (no record, or a record without the two fields), or
\* search_songs_for_artist is called and runs up to its first statement
Lookup(e) ==
    /\ spc[e] = "y_searching"
    /\ LET f == [sframe[e] EXCEPT !.log = Append(@, "get_search")]
           search_data == Get(Key("search", f.search_id))
       IN IF search_data = NoValue
          THEN /\ YieldError(e, f, "KeyError",
                             StrKeyError(NotFoundText(f.search_id)))
               /\ UNCHANGED gateVars
          ELSE IF MissingField(search_data) # NoField
          THEN /\ YieldError(e, f, "KeyError",
                             StrKeyError(MissingField(search_data)))
               /\ UNCHANGED gateVars
          ELSE /\ sframe' = [sframe EXCEPT ![e] =
                               [f EXCEPT !.spotify_id = search_data.spotify_id,
                                         !.artist_name = search_data.artist_name,
                                         !.log = Append(@, "search_songs_for_artist")]]
               /\ spc' = [spc EXCEPT ![e] = "gate"]
               /\ StartGate(GateOf(e), search_data)
    /\ UNCHANGED <<store, rclock, rticks, created, sruns>>

\* search_songs_for_artist has ended: its exception reaches the handler, or
\* create_decision_tree is called
GateReturns(e) ==
    /\ spc[e] = "gate"
    /\ gpc[GateOf(e)] = "done"
    /\ LET g == gframe[GateOf(e)] IN
       IF g.raised # "none"
       THEN YieldError(e, sframe[e], g.raised, <<g.raised>>)
       ELSE /\ sframe' = [sframe EXCEPT
                            ![e].log = Append(@, "create_decision_tree")]
            /\ spc' = [spc EXCEPT ![e] = "tree"]
    /\ UNCHANGED <<store, rclock, rticks, created, sruns, gateVars>>

\* create_decision_tree: SELECT * FROM songs_{artist_name} (no such table
\* raises OperationalError), the mock tree; then create_session (setex, which
\* may raise a RedisError); then yield completed
TreeSelect(e) ==
    /\ spc[e] = "tree"
    /\ LET f == sframe[e]
           tree == create_mock_decision_tree(f.artist_name)
           session_data == [spotify_id |-> f.spotify_id,
                            artist_name |-> f.artist_name,
                            tree |-> _serialize_tree(tree)]
       IN IF sanitize_table_name(f.artist_name) \notin DOMAIN song_tables
          THEN /\ YieldError(e, f, "OperationalError", <<"OperationalError">>)
               /\ UNCHANGED store
          ELSE \/ /\ store' = SetEx(store, Key("session", f.search_id),
                                    ExpireTime, session_data)
                  /\ sframe' = [sframe EXCEPT ![e] =
                       [f EXCEPT
                          !.log = @ \o <<"create_session", "completed">>,
                          !.session_expires = rclock + ExpireTime,
                          !.msgs = Append(@, CompletedMessage(
                                      tree, f.spotify_id, f.artist_name))]]
                  /\ spc' = [spc EXCEPT ![e] = "y_completed"]
               \/ /\ YieldError(e, [f EXCEPT !.log = Append(@, "create_session")],
                                "RedisError", <<"RedisError">>)
                  /\ UNCHANGED store
    /\ UNCHANGED <<rclock, rticks, created, sruns, gateVars>>

\* finally: await search_manager.delete_search(search_id); the generator ends
Cleanup(e, abandoned) ==
    /\ store' = Delete(store, Key("search", sframe[e].search_id))
    /\ sframe' = [sframe EXCEPT ![e].deletes = @ + 1,
                                ![e].log = Append(@, "delete_search"),
                                ![e].abandoned = abandoned]
    /\ spc' = [spc EXCEPT ![e] = "closed"]

\* the consumer asks for the message after the terminal one: the generator
\* leaves the try statement through finally
ConsumeEnd(e) ==
    /\ spc[e] \in {"y_completed", "y_error"}
    /\ Cleanup(e, FALSE)
    /\ UNCHANGED <<rclock, rticks, created, sruns, gateVars>>

\* the consumer stops reading while the generator is suspended at a yield
Abandon(e) ==
    /\ spc[e] \in {"y_searching", "y_completed", "y_error"}
    /\ spc' = [spc EXCEPT ![e] = "dropped"]
    /\ UNCHANGED <<store, rclock, rticks, created, sframe, sruns, gateVars>>

\* aclose() of the dropped generator (by the consumer or by the event loop's
\* asynchronous generator finalizer): GeneratorExit at the yield is not an
\* Exception, finally runs
Finalize(e) ==
    /\ spc[e] = "dropped"
    /\ Cleanup(e, TRUE)
    /\ UNCHANGED <<rclock, rticks, created, sruns, gateVars>>

\* the consumer's task is cancelled while the generator awaits a stage:
\* CancelledError leaves the stage and is not an Exception, finally runs
Cancel(e) ==
    /\ \/ /\ spc[e] = "gate"
          /\ gpc[GateOf(e)] # "done"
          /\ GFinish(GateOf(e), gframe[GateOf(e)], "CancelledError")
          /\ UNCHANGED <<artists, song_tables, now, gcalls, ticks>>
       \/ /\ spc[e] = "tree"
          /\ UNCHANGED gateVars
    /\ Cleanup(e, TRUE)
    /\ UNCHANGED <<rclock, rticks, created, sruns>>

\* the Redis clock advances; expired keys are gone
RedisTick(d) ==
    /\ rticks < MaxRedisTicks
    /\ rticks' = rticks + 1
    /\ rclock' = rclock + d
    /\ store' = [k \in {j \in DOMAIN store : rclock + d < store[j].expires_at}
                   |-> store[k]]
    /\ UNCHANGED <<created, spc, sframe, sruns, gateVars>>

\* a statement of a stream's search_songs_for_artist call
GateStep(g) ==
    /\ \/ CheckSelect(g)
       \/ CheckInsert(g)
       \/ UpdateTimestamp(g)
       \/ UpdateSongs(g)
       \/ UpdateFails(g)
       \/ SelectSongs(g)
    /\ UNCHANGED streamVars

StreamNext ==
    /\ \/ \E id \in SearchIds, in \in GateInputs : start_search(id, in.spotify_id)
       \/ \E e \in Streams, id \in SearchIds : OpenStream(e, id)
       \/ \E e \in Streams : Lookup(e)
       \/ \E e \in Streams : GateReturns(e)
       \/ \E e \in Streams : TreeSelect(e)
       \/ \E e \in Streams : ConsumeEnd(e)
       \/ \E e \in Streams : Abandon(e)
       \/ \E e \in Streams : Finalize(e)
       \/ \E e \in Streams : Cancel(e)
       \/ \E d \in RedisTickSteps : RedisTick(d)
       \/ \E g \in GateProcs : GateStep(g)
    /\ UNCHANGED <<recVars, pathVars, syncVars, voteVars, storeVars,
                   tableVars, navVars, depVars>>

\* another client of the Redis server writes a record without the fields of
\* a search under a search key: setex(f"search:{id}", 3600, '{"invalid": "data"}')
MalformedSearch == [invalid |-> "data"]

ForeignSetEx(id) ==
    /\ store' = SetEx(store, Key("search", id), ExpireTime, MalformedSearch)
    /\ store' # store
    /\ UNCHANGED <<rclock, rticks, created, spc, sframe, sruns, gateVars>>

\* the search ids of FaultSpec
FaultIds == {"q1"}

FaultNext ==
    /\ \/ \E id \in FaultIds, in \in GateInputs : start_search(id, in.spotify_id)
       \/ \E id \in FaultIds : ForeignSetEx(id)
       \/ \E e \in Streams, id \in FaultIds : OpenStream(e, id)
       \/ \E e \in Streams : Lookup(e)
       \/ \E e \in Streams : GateReturns(e)
       \/ \E e \in Streams : TreeSelect(e)
       \/ \E e \in Streams : ConsumeEnd(e)
       \/ \E e \in Streams : Abandon(e)
       \/ \E e \in Streams : Finalize(e)
       \/ \E e \in Streams : Cancel(e)
       \/ \E d \in RedisTickSteps : RedisTick(d)
       \/ \E g \in GateProcs : GateStep(g)
    /\ UNCHANGED <<recVars, pathVars, syncVars, voteVars, storeVars,
                   tableVars, navVars, depVars>>

\* ------------------------------------------ GET /api/search-updates/{search_id}
\* the endpoint looks the search up itself: without a record it answers
\* {"error": "Search not found"} and no generator is made; with one it answers
\* with the stream, whose generator runs up to yield searching
search_updates(e, id) ==
    IF Get(Key("search", id)) = NoValue
    THEN /\ spc[e] \in {"idle", "closed"}
         /\ sruns < MaxStreamRuns
         /\ sruns' = sruns + 1
         /\ sframe' = [sframe EXCEPT ![e] =
                         [SIdleFrame EXCEPT !.search_id = id,
                                            !.log = <<"search_not_found">>]]
         /\ spc' = [spc EXCEPT ![e] = "closed"]
         /\ UNCHANGED <<store, rclock, rticks, created, gateVars>>
    ELSE OpenStream(e, id)

\* the search ids of LifeSpec
LifeIds == {"q1"}

LifeNext ==
    /\ \/ \E id \in LifeIds, in \in GateInputs : start_search(id, in.spotify_id)
       \/ \E e \in Streams, id \in LifeIds : search_updates(e, id)
       \/ \E e \in Streams : Lookup(e)
       \/ \E e \in Streams : GateReturns(e)
       \/ \E e \in Streams : TreeSelect(e)
       \/ \E e \in Streams : ConsumeEnd(e)
       \/ \E e \in Streams : Abandon(e)
       \/ \E e \in Streams : Finalize(e)
       \/ \E e \in Streams : Cancel(e)
       \/ \E d \in RedisTickSteps : RedisTick(d)
       \/ \E g \in GateProcs : GateStep(g)
    /\ UNCHANGED <<recVars, pathVars, syncVars, voteVars, storeVars,
                   tableVars, navVars, depVars>>

\* ------------------------------------------------------------ POST /api/vote
MaxVotes == 5          \* length of a vote_history

\* the artist_name values of vote requests
VoteArtists == {Str_Artist_x, <<"A", "r", "t", "i", "s", "t", "_", "y">>}

RECURSIVE Histories(_)
Histories(n) ==
    IF n = 0 THEN {<<>>}
    ELSE Histories(n - 1)
           \cup {Append(h, v) : h \in {k \in Histories(n - 1) : Len(k) = n - 1},
                                v \in BOOLEAN}

\* the request bodies: {artist_name, vote_history} as record_vote reads them,
\* and {artistId, currentPath, liked}
VoteRequests ==
    [artist_name : VoteArtists, vote_history : Histories(MaxVotes)]
      \cup [artistId : {Str_x}, currentPath : 1..MaxPathInput, liked : BOOLEAN]

NoRequest == [none |-> TRUE]
NoResponse == [none |-> TRUE]

VoteIdle ==
    /\ vote_req = NoRequest
    /\ vote_resp = NoResponse

\* get_next_song(tree, vote_history): walk vote_yes / vote_no from the root;
\* None once a child is missing
RECURSIVE get_next_song(_, _)
get_next_song(tree, vote_history) ==
    IF vote_history = <<>> THEN tree.song
    ELSE LET current == IF Head(vote_history) THEN tree.vote_yes
                                              ELSE tree.vote_no
         IN IF current = NoNode THEN NoValue
            ELSE get_next_song(current, Tail(vote_history))

\* record_vote: the fields it reads (a missing one raises KeyError, which
\* the framework answers with status 500), the mock tree, the answer
record_vote(data) ==
    IF "artist_name" \notin DOMAIN data \/ "vote_history" \notin DOMAIN data
    THEN [raised |-> "KeyError", body |-> NoValue]
    ELSE LET tree == create_mock_decision_tree(data.artist_name)
             next_song == get_next_song(tree, data.vote_history)
         IN IF next_song = NoValue
            THEN [raised |-> "none", body |-> [status |-> "complete"]]
            ELSE [raised |-> "none",
                  body |-> [status |-> "continue", song |-> next_song]]

\* a client posts a vote
RecordVote(data) ==
    /\ vote_req' = data
    /\ vote_resp' = record_vote(data)
    /\ vote_req' # vote_req
    /\ UNCHANGED <<recVars, pathVars, gateVars, syncVars, streamVars, storeVars,
                   tableVars, navVars, depVars>>

VoteNext == \E data \in VoteRequests : RecordVote(data)

\* ------------------------------------------------ the managers of the TTL store
\* SearchManager and SessionManager called one at a time by their clients;
\* each method is one Redis command.  json.dumps and json.loads return the
\* records of these calls (string keys; strings, integers, lists and None as
\* values) unchanged, so the store holds the record itself.
StoreIds == {"q1"}

\* Search(search_id, artist_id, artist_name), asdict
SearchOf(id, artist_id) ==
    [search_id |-> id, artist_id |-> artist_id,
     artist_name |-> <<"A", "r", "t", "i", "s", "t", "_">> \o artist_id]

StoreArtists == {Str_x, <<"y">>}

\* session_data of create_session
SessionData(spotify_id, artist_name, tree) ==
    [spotify_id |-> spotify_id, artist_name |-> artist_name,
     tree |-> _serialize_tree(tree)]

\* the session records update_session is called with
SessionValues ==
    {SessionData(a, <<"A", "r", "t", "i", "s", "t", "_">> \o a,
                 TreeNode(Song("0", a), NoNode, NoNode)) : a \in StoreArtists}

NoReply == [op |-> "none", key |-> <<>>, result |-> NoValue, raised |-> "none"]

StoreIdle ==
    /\ written = NoKeys
    /\ reply = NoReply

\* history: the last write of a key, whether it replaced another record that
\* was still served, and whether the key was deleted since
Wrote(key, value) ==
    [k \in DOMAIN written \cup {key} |->
        IF k = key
        THEN [value |-> value, at |-> rclock, deleted |-> FALSE,
              replaced |-> Live(key) /\ store[key].value # value]
        ELSE written[k]]

\* a get_search that reads the key of the session
get_search_SessionKey(id) == Get(Key("session", id))

\* SearchManager.get_search: redis.get, `if not data: return None`, the
\* decoded record otherwise
get_search(id) == Get(Key("search", id))

\* SessionManager.get_session, likewise
get_session(id) == Get(Key("session", id))

\* redis.delete of a missing key fails with KeyError
DeleteError_Missing(st, key) == IF key \in DOMAIN st THEN "none" ELSE "KeyError"

\* redis.delete returns the number of keys it removed and raises nothing
DeleteError(st, key) == "none"

\* a manager call that writes `value` under `key`
StoreWrite(op, key, value) ==
    /\ store' = SetEx(store, key, ExpireTime, value)
    /\ written' = Wrote(key, value)
    /\ reply' = [op |-> op, key |-> key, result |-> NoValue, raised |-> "none"]
    /\ UNCHANGED <<rclock, rticks>>

\* a manager call that reads `key`
StoreRead(op, key, result) ==
    /\ reply' = [op |-> op, key |-> key, result |-> result, raised |-> "none"]
    /\ reply' # reply
    /\ UNCHANGED <<store, rclock, rticks, written>>

\* SearchManager.create_search(search_id, search)
CreateSearch(id, artist_id) ==
    StoreWrite("create_search", Key("search", id), SearchOf(id, artist_id))

GetSearch(id) == StoreRead("get_search", Key("search", id), get_search(id))

\* SearchManager.delete_search(search_id); the reply keeps the count of
\* removed keys that redis.delete returns and the method discards
DeleteSearch(id) ==
    LET key == Key("search", id) IN
      /\ store' = Delete(store, key)
      /\ written' = [k \in DOMAIN written |->
                       IF k = key THEN [written[k] EXCEPT !.deleted = TRUE]
                       ELSE written[k]]
      /\ reply' = [op |-> "delete_search", key |-> key,
                   result |-> [removed |-> IF key \in DOMAIN store THEN 1 ELSE 0],
                   raised |-> DeleteError(store, key)]
      /\ UNCHANGED <<rclock, rticks>>

\* SessionManager.create_session(search_id, spotify_id, artist_name, tree)
CreateSession(id, spotify_id) ==
    LET artist_name == <<"A", "r", "t", "i", "s", "t", "_">> \o spotify_id IN
      StoreWrite("create_session", Key("session", id),
                 SessionData(spotify_id, artist_name,
                             create_mock_decision_tree(artist_name)))

GetSession(id) == StoreRead("get_session", Key("session", id), get_session(id))

\* an update_session that writes with redis.set: no expiry, the record
\* stays (here: for 1000 hours)
UpdateSession_Set(id, session_data) ==
    /\ store' = SetEx(store, Key("session", id), 1000 * ExpireTime, session_data)
    /\ written' = Wrote(Key("session", id), session_data)
    /\ reply' = [op |-> "update_session", key |-> Key("session", id),
                 result |-> NoValue, raised |-> "none"]
    /\ UNCHANGED <<rclock, rticks>>

\* SessionManager.update_session(search_id, session_data)
UpdateSession(id, session_data) ==
    StoreWrite("update_session", Key("session", id), session_data)

\* time passes on the Redis server
StoreTick(d) ==
    /\ RedisTick(d)
    /\ UNCHANGED <<written, reply>>

StoreNext ==
    /\ \/ \E id \in StoreIds, a \in StoreArtists : CreateSearch(id, a)
       \/ \E id \in StoreIds : GetSearch(id)
       \/ \E id \in StoreIds : DeleteSearch(id)
       \/ \E id \in StoreIds, a \in StoreArtists : CreateSession(id, a)
       \/ \E id \in StoreIds : GetSession(id)
       \/ \E id \in StoreIds, v \in SessionValues : UpdateSession(id, v)
       \/ \E d \in RedisTickSteps : StoreTick(d)
    /\ UNCHANGED <<created, spc, sframe, sruns>>
    /\ UNCHANGED <<recVars, pathVars, gateVars, syncVars, voteVars,
                   tableVars, navVars, depVars>>

\* ------------------------------------- the per-artist tables of database.py
MaxTableCalls == 3     \* manager calls of TableSpec

\* artist ids: with '-' (as in the tests), with '_', and without either
ArtistIds == {<<"a", "-", "b">>, <<"a", "_", "b">>, <<"a", "b">>}

\* table_name = f"tracks_{artist_id.replace('-', '_')}"
create_track_table(artist_id) ==
    <<"tracks_">> \o Replace(artist_id, "-", "_")

\* table_name = f"recommendations_{artist_id.replace('-', '_')}"
create_recommendations_table(artist_id) ==
    <<"recommendations_">> \o Replace(artist_id, "-", "_")

NoTables == [x \in {} |-> None]

NoCall == [op |-> "none", artist_id |-> <<>>, result |-> None, raised |-> "none"]

TableIdle ==
    /\ track_tables = NoTables
    /\ rec_tables = NoTables
    /\ table_call = NoCall
    /\ table_calls = 0

\* table.create(connection, checkfirst=True)
EnsureTable(tables, name, empty) ==
    IF name \in DOMAIN tables THEN tables ELSE tables @@ (name :> empty)

\* the rows of table `name` become `rows`
PutTable(tables, name, rows) ==
    [n \in DOMAIN tables \cup {name} |-> IF n = name THEN rows ELSE tables[n]]

\* a manager call for artist_id ends with `result` or raises `raised`
Called(op, artist_id, result, raised) ==
    /\ table_calls < MaxTableCalls
    /\ table_calls' = table_calls + 1
    /\ table_call' = [op |-> op, artist_id |-> artist_id, result |-> result,
                      raised |-> raised]

\* TrackManager.update_tracks(db, artist_id, tracks), run alone
UpdateTracksOf(artist_id, new_tracks) ==
    /\ Called("update_tracks", artist_id, None, "none")
    /\ track_tables' = PutTable(track_tables, create_track_table(artist_id),
                                new_tracks)
    /\ UNCHANGED rec_tables

\* RecommendationManager.get_initial_recommendation(db, artist_id), run alone
GetRootOf(artist_id) ==
    LET rname == create_recommendations_table(artist_id)
        tname == create_track_table(artist_id)
        with_recs == EnsureTable(rec_tables, rname, NoRecs)
        with_tracks == EnsureTable(track_tables, tname, <<>>)
        table == with_recs[rname]
        catalog == with_tracks[tname]
    IN /\ track_tables' = with_tracks
       /\ IF 1 \in DOMAIN table
          THEN /\ rec_tables' = with_recs
               /\ IF GetTrack(catalog, table[1]) = None
                  THEN Called("get_root", artist_id, None, "ValueError")
                  ELSE Called("get_root", artist_id, table[1], "none")
          ELSE IF catalog = <<>>
          THEN /\ rec_tables' = with_recs
               /\ Called("get_root", artist_id, None, "ValueError")
          ELSE LET initial_track == MaxByPopularity(catalog).spotify_id IN
                 /\ \/ rec_tables' = PutTable(with_recs, rname,
                                        InsertIgnore(table, 1, initial_track))
                    \/ rec_tables' = with_recs
                 /\ Called("get_root", artist_id, initial_track, "none")

\* RecommendationManager.get_next_recommendation(db, artist_id, current_path,
\* liked), run alone
GetNextOf(artist_id, current_path, liked) ==
    LET rname == create_recommendations_table(artist_id)
        tname == create_track_table(artist_id)
        next_path == NextPath(current_path, liked)
    IN IF rname \notin DOMAIN rec_tables
       THEN /\ Called("get_next", artist_id, None, "OperationalError")
            /\ UNCHANGED <<track_tables, rec_tables>>
       ELSE LET table == rec_tables[rname]
                with_tracks == EnsureTable(track_tables, tname, <<>>)
                catalog == with_tracks[tname]
                available_tracks == AvailableTracks(catalog, Range(table))
            IN /\ track_tables' = with_tracks
               /\ IF next_path \in DOMAIN table
                  THEN /\ Called("get_next", artist_id,
                                 GetTrack(catalog, table[next_path]), "none")
                       /\ UNCHANGED rec_tables
                  ELSE IF available_tracks = <<>>
                  THEN /\ Called("get_next", artist_id, None, "none")
                       /\ UNCHANGED rec_tables
                  ELSE \E i \in DOMAIN available_tracks :
                         LET next_track == available_tracks[i].spotify_id IN
                           /\ rec_tables' = PutTable(rec_tables, rname,
                                               table @@ (next_path :> next_track))
                           /\ Called("get_next", artist_id, next_track, "none")

TableNext ==
    /\ \/ \E a \in ArtistIds, t \in AllCatalogs : UpdateTracksOf(a, t)
       \/ \E a \in ArtistIds : GetRootOf(a)
       \/ \E a \in ArtistIds, cp \in 1..MaxCurrentPath, l \in BOOLEAN :
             GetNextOf(a, cp, l)
    /\ UNCHANGED <<recVars, pathVars, gateVars, syncVars, streamVars, voteVars,
                   storeVars, navVars, depVars>>

\* ------------------------------------------ SessionManager.get_current_song
MaxNavVotes == 3       \* length of a vote_history of NavSpec

NavId == "q1"

\* a child position of a tree: left empty, or a pruning of the child
RECURSIVE Prunings(_)
Prunings(node) ==
    IF node = NoNode THEN {NoNode}
    ELSE {NoNode} \cup {TreeNode(node.song, l, r) :
                           l \in Prunings(node.vote_no),
                           r \in Prunings(node.vote_yes)}

\* the decision trees of NavSpec: the mock tree and what remains of it when
\* subtrees are cut off, the root kept
NavTrees == Prunings(create_mock_decision_tree(Str_Artist_x)) \ {NoNode}

NavHistories == Histories(MaxNavVotes)

NoCurrent == [called |-> FALSE, served |-> FALSE, raised |-> "none",
              song |-> NoValue]

NoNext == [called |-> FALSE, song |-> NoValue]

NavIdle ==
    nav = [tree |-> NoNode, vote_history |-> <<>>, current |-> NoCurrent,
           next |-> NoNext]

\* the loop of get_current_song over the decoded snapshot and its return;
\* subscripting None raises TypeError
RECURSIVE WalkSnapshot(_, _)
WalkSnapshot(node, vote_history) ==
    IF node = NoNode THEN [raised |-> "TypeError", song |-> NoValue]
    ELSE IF vote_history = <<>> THEN [raised |-> "none", song |-> node.song]
    ELSE LET child == IF Head(vote_history) THEN node.right ELSE node.left
         IN IF child = NoNode THEN [raised |-> "none", song |-> NoValue]
            ELSE WalkSnapshot(child, Tail(vote_history))

\* a get_current_song that does not navigate
get_current_song_RootOnly(search_id, vote_history) ==
    LET data == Get(Key("session", search_id)) IN
      IF data = NoValue THEN [raised |-> "TypeError", song |-> NoValue]
      ELSE WalkSnapshot(data.tree, <<>>)

\* session_data = json.loads(self.redis.get(f"session:{search_id}")), which
\* raises TypeError when the key holds nothing; then the walk
get_current_song(search_id, vote_history) ==
    LET data == Get(Key("session", search_id)) IN
      IF data = NoValue THEN [raised |-> "TypeError", song |-> NoValue]
      ELSE WalkSnapshot(data.tree, vote_history)

\* session_manager.create_session(search_id, spotify_id, artist_name, tree)
NavCreateSession ==
    /\ store' = SetEx(store, Key("session", NavId), ExpireTime,
                      SessionData(Str_x, Str_Artist_x, nav.tree))
    /\ store' # store
    /\ UNCHANGED <<rclock, rticks, created, spc, sframe, sruns, gateVars, nav>>

\* session_manager.get_current_song(search_id, vote_history)
NavGetCurrentSong ==
    /\ LET r == get_current_song(NavId, nav.vote_history) IN
         nav' = [nav EXCEPT !.current =
                   [called |-> TRUE, served |-> Live(Key("session", NavId)),
                    raised |-> r.raised, song |-> r.song]]
    /\ nav' # nav
    /\ UNCHANGED <<streamVars, gateVars>>

\* get_next_song(tree, vote_history) on the tree in memory
NavGetNextSong ==
    /\ nav' = [nav EXCEPT !.next =
                 [called |-> TRUE,
                  song |-> get_next_song(nav.tree, nav.vote_history)]]
    /\ nav' # nav
    /\ UNCHANGED <<streamVars, gateVars>>

NavTick(d) ==
    /\ RedisTick(d)
    /\ UNCHANGED nav

NavNext ==
    /\ \/ NavCreateSession
       \/ NavGetCurrentSong
       \/ NavGetNextSong
       \/ \E d \in RedisTickSteps : NavTick(d)
    /\ UNCHANGED <<recVars, pathVars, syncVars, voteVars, storeVars, tableVars,
                   depVars>>

\* -------------------------------------------------------------------- get_db
\* the requests, each with its own get_db generator and session
Requests == {"r1", "r2", "r3"}

\* what a consumer may raise into the generator at the yield: an Exception,
\* or the cancellation of its task, which is not an Exception
ConsumerErrors == {"ValueError", "CancelledError"}

IsException(e) == e # "CancelledError"

\* per request: where the generator is, how the consumer ended, the calls
\* made on the session, the state of its transaction, whether it is closed,
\* the exception on its way out of the generator and what left it
NoDep ==
    [pc |-> "idle", consumer |-> "none", commits |-> 0, rollbacks |-> 0,
     closes |-> 0, txn |-> "none", closed |-> FALSE, pending |-> "none",
     raised |-> "none"]

DepIdle == dep = [r \in Requests |-> NoDep]

\* async with AsyncSessionLocal() as session: try: yield session
GetDb(r) ==
    /\ dep[r].pc = "idle"
    /\ dep' = [dep EXCEPT ![r].pc = "yielded", ![r].txn = "open"]

\* the consumer finishes: the generator is resumed after the yield
ConsumerReturns(r) ==
    /\ dep[r].pc = "yielded"
    /\ dep' = [dep EXCEPT ![r].pc = "commit", ![r].consumer = "returned"]

\* the consumer raises: the exception is thrown into the generator at the
\* yield; `except Exception` takes an Exception, anything else goes straight
\* to finally
ConsumerRaises(r, e) ==
    /\ dep[r].pc = "yielded"
    /\ dep' = [dep EXCEPT ![r].pc = IF IsException(e) THEN "except"
                                                      ELSE "finally",
                          ![r].consumer = e,
                          ![r].pending = e]

\* await session.commit(): it succeeds, or it raises and the except clause
\* takes the error
SessionCommit(r) ==
    /\ dep[r].pc = "commit"
    /\ \/ dep' = [dep EXCEPT ![r].pc = "finally", ![r].commits = @ + 1,
                             ![r].txn = "committed"]
       \/ dep' = [dep EXCEPT ![r].pc = "except", ![r].commits = @ + 1,
                             ![r].pending = "OperationalError"]

\* an except clause that rolls back and does not raise again
SessionRollback_Swallow(r) ==
    /\ dep[r].pc = "except"
    /\ dep' = [dep EXCEPT ![r].pc = "finally", ![r].rollbacks = @ + 1,
                          ![r].txn = "rolled_back", ![r].pending = "none"]

\* except Exception: await session.rollback(); raise
SessionRollback(r) ==
    /\ dep[r].pc = "except"
    /\ dep' = [dep EXCEPT ![r].pc = "finally", ![r].rollbacks = @ + 1,
                          ![r].txn = "rolled_back"]

\* session.close(): the first call ends a transaction still open by rolling
\* it back and closes the session; a call on a closed session does nothing
Close(d) ==
    [d EXCEPT !.closes = @ + 1,
              !.closed = TRUE,
              !.txn = IF d.txn = "open" THEN "rolled_back" ELSE d.txn]

\* finally: await session.close()
SessionClose(r) ==
    /\ dep[r].pc = "finally"
    /\ dep' = [dep EXCEPT ![r] = [Close(dep[r]) EXCEPT !.pc = "aexit"]]

\* the end of `async with`: AsyncSession.__aexit__ awaits close() too; then
\* the generator ends, or the exception on its way out leaves it
SessionAExit(r) ==
    /\ dep[r].pc = "aexit"
    /\ dep' = [dep EXCEPT ![r] = [Close(dep[r]) EXCEPT
                                    !.pc = "exited",
                                    !.raised = dep[r].pending]]

DepNext ==
    /\ \/ \E r \in Requests : GetDb(r)
       \/ \E r \in Requests : ConsumerReturns(r)
       \/ \E r \in Requests, e \in ConsumerErrors : ConsumerRaises(r, e)
       \/ \E r \in Requests : SessionCommit(r)
       \/ \E r \in Requests : SessionRollback(r)
       \/ \E r \in Requests : SessionClose(r)
       \/ \E r \in Requests : SessionAExit(r)
    /\ UNCHANGED <<recVars, pathVars, gateVars, syncVars, streamVars, voteVars,
                   storeVars, tableVars, navVars>>

PathIdle ==
    /\ path_in = <<[current_path |-> 1, liked |-> FALSE],
                   [current_path |-> 1, liked |-> FALSE]>>
    /\ path_out = <<0, 0>>

Init ==
    /\ RecInit /\ PathIdle /\ GateInit /\ SyncIdle /\ StreamIdle
    /\ VoteIdle /\ StoreIdle /\ TableIdle /\ NavIdle /\ DepIdle

Next ==
    RecNext /\ UNCHANGED <<pathVars, gateVars, syncVars, streamVars, voteVars,
                           storeVars,
                           tableVars, navVars, depVars>>

Spec == Init /\ [][Next]_vars

\* the freshness gate and get_or_create_artist over the artists table
GateSpec == Init /\ [][GateNext]_vars

\* the progress streams over the Redis store and songs.db
StreamSpec == Init /\ [][StreamNext]_vars

\* the progress streams of one search id whose record another Redis client
\* may overwrite
FaultSpec == Init /\ [][FaultNext]_vars

\* one search id from start_search through the search-updates endpoint and
\* its streams
LifeSpec == Init /\ [][LifeNext]_vars

\* the managers of database.py called for several artists, call by call
TableSpec == Init /\ [][TableNext]_vars

\* get_db, one generator and one session per request
DepSpec == Init /\ [][DepNext]_vars

\* the two managers over the Redis store, call by call
StoreSpec == Init /\ [][StoreNext]_vars

\* the vote endpoint, request by request
VoteSpec == Init /\ [][VoteNext]_vars

\* TrackManager.update_tracks statement by statement, with a reader
SyncSpec == Init /\ [][SyncNext]_vars

\* ------------------------------------------------------------------ RootSpec
\* get_initial_recommendation alone, started on any synced catalog of up to
\* three tracks
RootInit ==
    /\ tracks \in RootCatalogs
    /\ recs = NoRecs
    /\ rec_table = FALSE
    /\ pc = [p \in Procs |-> "idle"]
    /\ frame = [p \in Procs |-> IdleFrame]
    /\ returned = {}
    /\ syncs = 0
    /\ calls = 0
    /\ PathIdle
    /\ GateInit
    /\ SyncIdle
    /\ StreamIdle
    /\ VoteIdle
    /\ StoreIdle
    /\ TableIdle
    /\ NavIdle
    /\ DepIdle

RootNext ==
    /\ \/ \E p \in Procs : StartRoot(p)
       \/ \E p \in Procs : RootSelect(p)
       \/ \E p \in Procs : RootGetTrack(p)
       \/ \E p \in Procs : RootGetTracks(p)
       \/ \E p \in Procs : RootInsert(p)
    /\ UNCHANGED <<pathVars, gateVars, syncVars, streamVars, voteVars, storeVars,
                   tableVars, navVars, depVars>>

RootSpec == RootInit /\ [][RootNext]_vars

\* ------------------------------------------------------------------ PathSpec
\* the path arithmetic of get_next_recommendation applied to two vote inputs
PathInputs == [current_path : 1..MaxPathInput, liked : BOOLEAN]

PathInit ==
    /\ RecInit
    /\ GateInit
    /\ SyncIdle
    /\ StreamIdle
    /\ VoteIdle
    /\ StoreIdle
    /\ TableIdle
    /\ NavIdle
    /\ DepIdle
    /\ path_in \in PathInputs \X PathInputs
    /\ path_out = <<0, 0>>

ComputeNextPath(k) ==
    /\ path_out[k] = 0
    /\ path_out' = [path_out EXCEPT
                      ![k] = NextPath(path_in[k].current_path, path_in[k].liked)]
    /\ UNCHANGED <<path_in, recVars, gateVars, syncVars, streamVars, voteVars,
                   storeVars,
                   tableVars, navVars, depVars>>

PathNext == \E k \in 1..2 : ComputeNextPath(k)

PathSpec == PathInit /\ [][PathNext]_vars

\* ------------------------------------------------------------------- NavSpec
\* the two navigations applied to one tree and one vote history
NavInit ==
    /\ RecInit
    /\ PathIdle
    /\ GateInit
    /\ SyncIdle
    /\ StreamIdle
    /\ VoteIdle
    /\ StoreIdle
    /\ TableIdle
    /\ DepIdle
    /\ nav \in [tree : NavTrees, vote_history : NavHistories,
                current : {NoCurrent}, next : {NoNext}]

NavSpec == NavInit /\ [][NavNext]_vars

\* ===================================================================== claims
TrackIdsOf(catalog) == {catalog[i].spotify_id : i \in DOMAIN catalog}

VoteBit(liked) == IF liked THEN 1 ELSE 0

\* the current calls of sessions p and q ran at the same time
Concurrent(p, q) ==
    /\ p # q
    /\ q \in frame[p].overlaps
    /\ p \in frame[q].overlaps

\* session p has finished a call of kind op without raising
Returned(p, op) ==
    /\ pc[p] = "done"
    /\ frame[p].op = op
    /\ frame[p].raised = "none"

\* C1: when get_root calls that found no node at path 1 ran concurrently and
\* have all returned, they returned the same track and path 1 holds exactly
\* that track.
C1_ConcurrentRootsAgree ==
    \A p, q \in Procs :
        ( /\ Concurrent(p, q)
          /\ Returned(p, "root") /\ Returned(q, "root")
          /\ frame[p].existing_track_id = None
          /\ frame[q].existing_track_id = None )
        => /\ frame[p].result = frame[q].result
           /\ 1 \in DOMAIN recs
           /\ recs[1] = frame[p].result

\* C2: no track id is stored at two different paths of the artist's
\* recommendation table.
C2_NoTrackAtTwoPaths ==
    \A x, y \in DOMAIN recs : x # y => recs[x] # recs[y]

\* C3: the recommendation table is append-only: every step (get_root,
\* get_next, catalog sync) keeps every existing row with its track id.
C3_AppendOnly ==
    [][\A x \in DOMAIN recs : x \in DOMAIN recs' /\ recs'[x] = recs[x]]_vars

\* a get_root insert met a row at path 1 that holds another track than its
\* candidate, after a catalog re-sync, and the row is still the older one
C3_Witness ==
    \E p \in Procs :
        /\ Returned(p, "root")
        /\ frame[p].existing_track_id = None
        /\ 1 \in DOMAIN recs
        /\ recs[1] # frame[p].candidate
        /\ syncs = MaxSyncs

C5_BinaryHeapAddressing ==
    \A k \in 1..2 :
        path_out[k] # 0 =>
            /\ path_out[k] \div 2 = path_in[k].current_path
            /\ path_out[k] % 2 = VoteBit(path_in[k].liked)
            /\ path_out[k] # 1
            /\ \A m \in 1..2 :
                 (path_out[m] # 0 /\ path_in[m] # path_in[k])
                     => path_out[m] # path_out[k]

\* (1, liked) and (3, rejected) have been addressed: paths 3 and 6
C5_Witness ==
    /\ path_in = <<[current_path |-> 1, liked |-> TRUE],
                   [current_path |-> 3, liked |-> FALSE]>>
    /\ path_out = <<3, 6>>

\* C6: once get_next has returned track t for a path, every get_next call
\* for that path started afterwards returns t (no error, no other track, no
\* null).
C6_Memoised ==
    \A p \in Procs :
        (pc[p] = "done" /\ frame[p].op = "next" /\ frame[p].seen # {})
        => /\ frame[p].raised = "none"
           /\ frame[p].result \in frame[p].seen

\* C7: two concurrent get_next calls with the same arguments that both looked
\* up next_path and found no node both return, with the same track, and that track is
\* the row at next_path.
C7_ConcurrentVotesConverge ==
    \A p, q \in Procs :
        ( /\ Concurrent(p, q)
          /\ pc[p] = "done" /\ pc[q] = "done"
          /\ frame[p].op = "next" /\ frame[q].op = "next"
          /\ frame[p].next_path = frame[q].next_path
          /\ frame[p].raised # "OperationalError"
          /\ frame[q].raised # "OperationalError"
          /\ frame[p].existing_track_id = None
          /\ frame[q].existing_track_id = None )
        => /\ frame[p].raised = "none" /\ frame[q].raised = "none"
           /\ frame[p].result = frame[q].result
           /\ frame[p].result # None =>
                 /\ frame[p].next_path \in DOMAIN recs
                 /\ recs[frame[p].next_path] = frame[p].result

\* C8: a get_next call that found no node at next_path and reads a catalog
\* whose every track id is in the set of assigned track ids it read returns
\* null: it raises nothing and writes nothing.
C8_ExhaustedReturnsNull ==
    [][\A p \in Procs :
         ( /\ pc[p] = "n_get_tracks" /\ pc'[p] # pc[p]
           /\ TrackIdsOf(tracks) \subseteq frame[p].used_track_ids )
         => /\ pc'[p] = "done"
            /\ frame'[p].result = None
            /\ frame'[p].raised = "none"
            /\ recs' = recs
      ]_vars

\* a get_next call on a non-empty, fully assigned catalog has returned null
C8_Witness ==
    \E p \in Procs :
        /\ Returned(p, "next")
        /\ frame[p].existing_track_id = None
        /\ frame[p].result = None
        /\ tracks # <<>>
        /\ TrackIdsOf(tracks) \subseteq frame[p].used_track_ids
        /\ frame[p].next_path \notin DOMAIN recs

\* C9: with no node at path 1 and a non-empty catalog, get_root picks the
\* first track, in catalog order, of maximum popularity, and returns it.
C9_RootIsFirstMaxPopularity ==
    [][\A p \in Procs :
         /\ (pc[p] = "r_get_tracks" /\ pc'[p] # pc[p] /\ tracks # <<>>)
              => /\ pc'[p] = "r_insert"
                 /\ \E i \in DOMAIN tracks :
                      /\ frame'[p].candidate = tracks[i].spotify_id
                      /\ \A j \in DOMAIN tracks :
                           /\ tracks[j].popularity <= tracks[i].popularity
                           /\ j < i => tracks[j].popularity < tracks[i].popularity
         /\ (pc[p] = "r_insert" /\ pc'[p] # pc[p])
              => /\ pc'[p] = "done"
                 /\ frame'[p].raised = "none"
                 /\ frame'[p].result = frame[p].candidate
      ]_vars

\* the catalog a:10, b:90, c:50 has given root b
C9_Witness ==
    \E p \in Procs :
        /\ tracks = <<Track("a", 10), Track("b", 90), Track("c", 50)>>
        /\ Returned(p, "root")
        /\ frame[p].existing_track_id = None
        /\ frame[p].result = "b"

\* the staleness predicate on what a gate call read: no row (the call creates
\* the record), a NULL last_updated, or a timestamp older than 14 days
ReadStale(f) ==
    \/ f.observed = "absent"
    \/ f.observed_last = NullTime
    \/ f.checked_at - f.observed_last > 14

\* C10: a finished Freshness Gate call has run exactly one catalog sync when
\* the artist's last_synced was null (or the record was created by the call)
\* or older than 14 days, and none otherwise.
C10_StalenessDecidesSyncs ==
    \A g \in GateProcs :
        ( /\ gpc[g] = "done"
          /\ gframe[g].op = "gate"
          /\ gframe[g].raised # "IntegrityError" )
        => gframe[g].syncs = IF ReadStale(gframe[g]) THEN 1 ELSE 0

\* the last_updated persisted for a spotify_id; no row reads as NULL
PersistedLastUpdated(spotify_id) ==
    IF spotify_id \in DOMAIN artists THEN artists[spotify_id].last_updated
    ELSE NullTime

\* C11: when the sync of a gate call fails (and no other call ran at the
\* same time), the persisted last_updated of the artist is the value the call
\* found: NULL for an artist that had no row, the previous timestamp
\* otherwise.
C11_FailedSyncKeepsLastSynced ==
    [][\A g \in GateProcs :
         ( /\ gpc[g] # "done" /\ gpc'[g] = "done"
           /\ gframe'[g].op = "gate"
           /\ gframe'[g].raised = "SyncError"
           /\ gframe'[g].overlaps = {} )
         => PersistedLastUpdated(gframe[g].spotify_id)' =
               IF gframe[g].observed = "absent" THEN NullTime
               ELSE gframe[g].observed_last
      ]_vars

\* C12: a gate call that ran a sync (alone) and returned, returned exactly
\* the rows its sync stored.
C12_ReturnsWhatTheSyncStored ==
    \A g \in GateProcs :
        ( /\ gpc[g] = "done"
          /\ gframe[g].op = "gate"
          /\ gframe[g].raised = "none"
          /\ gframe[g].needs_update
          /\ gframe[g].overlaps = {} )
        => gframe[g].result = gframe[g].stored

\* update_tracks has returned normally (its last commit is done)
UpdateCommitted == upc = "done" /\ uframe.raised = "none"

\* the stored rows, and what get_tracks returns, are exactly the list given
ReplacedBy(T) == tracks = T /\ (got.read => got.rows = T)

\* C13 as stated: after update_tracks(T) commits, get_tracks returns exactly
\* the tracks of T, and the call ran one delete, one insert per track and a
\* single commit.
C13_ReplacesWithSingleCommit ==
    UpdateCommitted =>
        /\ ReplacedBy(uframe.tracks)
        /\ uframe.deletes = 1
        /\ uframe.inserts = Len(uframe.tracks)
        /\ uframe.commits = 1

\* C13, amended: after update_tracks(T) commits, get_tracks returns exactly
\* the tracks of T, and the call ran one delete, one insert per track and two
\* commits: the one of ensure_table_exists before the delete and one after
\* the last insert.
C13_ReplacesTrackSet ==
    /\ UpdateCommitted =>
         /\ ReplacedBy(uframe.tracks)
         /\ uframe.deletes = 1
         /\ uframe.inserts = Len(uframe.tracks)
         /\ uframe.commits = 2
    /\ upc \in {"t_delete", "t_insert", "t_commit"} =>
         /\ uframe.commits = 1
         /\ tracks = uframe.before

\* an update with the empty list has emptied a catalog that held a track, and
\* get_tracks has read it
C13_Witness ==
    /\ UpdateCommitted
    /\ uframe.before # <<>>
    /\ uframe.tracks = <<>>
    /\ got.read

\* C14: when two get_or_create_artist calls for the same spotify_id ran at
\* the same time and have ended, neither raised and the artist has its row.
C14_CreateIfAbsentRaceSafe ==
    \A g, h \in GateProcs :
        ( /\ g # h
          /\ gpc[g] = "done" /\ gpc[h] = "done"
          /\ gframe[g].op = "create" /\ gframe[h].op = "create"
          /\ gframe[g].spotify_id = gframe[h].spotify_id
          /\ h \in gframe[g].overlaps /\ g \in gframe[h].overlaps )
        => /\ gframe[g].raised = "none"
           /\ gframe[h].raised = "none"
           /\ gframe[g].spotify_id \in DOMAIN artists

\* the search key of the run of stream e
SearchKeyOf(e) == Key("search", sframe[e].search_id)

\* C15: a run of the stream calls delete_search exactly once, when it ends
\* (after completed, after an error, when it is abandoned at a yield or
\* cancelled in a stage), and the search record of its id is gone at that
\* moment.
C15_CleanupExactlyOnce ==
    [][\A e \in Streams :
         /\ spc'[e] # "closed" => sframe'[e].deletes = 0
         /\ spc'[e] = "closed" => sframe'[e].deletes = 1
         /\ (spc[e] # "closed" /\ spc'[e] = "closed")
               => SearchKeyOf(e) \notin DOMAIN store'
      ]_vars

\* a run cancelled inside the catalog refresh, after the artist row had been
\* inserted, has deleted its search record
C15_Witness ==
    \E e \in Streams :
        /\ spc[e] = "closed"
        /\ sframe[e].abandoned
        /\ sframe[e].deletes = 1
        /\ gframe[GateOf(e)].raised = "CancelledError"
        /\ sframe[e].spotify_id \in DOMAIN artists
        /\ sframe[e].search_id \in created
        /\ SearchKeyOf(e) \notin DOMAIN store

\* the consumer of stream e has received a terminal message
TerminalReceived(e) ==
    /\ Len(sframe[e].msgs) = 2
    /\ sframe[e].msgs[2].status \in {"completed", "error"}

\* C16: whenever the consumer has received a terminal message of a stream,
\* get_search of its id returns null.
C16_SearchGoneAtTerminal ==
    \A e \in Streams :
        TerminalReceived(e) => Get(SearchKeyOf(e)) = NoValue

\* C17: the messages of a run are searching, then at most one terminal
\* message (completed or error); a run that ended without being abandoned
\* has delivered exactly these two.
C17_TwoMessages ==
    \A e \in Streams :
        LET m == sframe[e].msgs IN
          /\ Len(m) <= 2
          /\ spc[e] # "idle" => (Len(m) >= 1 /\ m[1] = SearchingMessage)
          /\ Len(m) = 2 => m[2].status \in {"completed", "error"}
          /\ (spc[e] = "closed" /\ ~sframe[e].abandoned) => Len(m) = 2
          /\ spc[e] \in {"y_completed", "y_error"} => Len(m) = 2

\* a run has ended after searching and completed, another after searching
\* and error
C17_Witness ==
    \E e, d \in Streams :
        /\ spc[e] = "closed" /\ ~sframe[e].abandoned
        /\ sframe[e].msgs[2].status = "completed"
        /\ spc[d] = "closed" /\ ~sframe[d].abandoned
        /\ sframe[d].msgs[2].status = "error"

\* sub occurs in text as a run of consecutive elements
Contains(text, sub) ==
    \E i \in 0..(Len(text) - Len(sub)) :
        \A j \in 1..Len(sub) : text[i + j] = sub[j]

\* the operations that touch a store or a database
StageOps ==
    {"get_search", "search_songs_for_artist", "create_decision_tree",
     "create_session", "delete_search"}

\* C18: the first thing a run does is to emit searching: the message has
\* been delivered before the search lookup and before any catalog,
\* recommendation or session operation of the run.
C18_SearchingFirst ==
    \A e \in Streams :
        LET f == sframe[e] IN
          /\ f.log # <<>> => f.log[1] = "searching"
          /\ (\E i \in DOMAIN f.log : f.log[i] \in StageOps)
                => (f.msgs # <<>> /\ f.msgs[1] = SearchingMessage)
          /\ spc[e] \in {"gate", "tree"} => f.msgs = <<SearchingMessage>>

\* a run is inside its catalog refresh, which has inserted the artist row,
\* and the consumer holds the searching message
C18_Witness ==
    \E e \in Streams :
        /\ spc[e] = "gate"
        /\ gpc[GateOf(e)] = "u_update"
        /\ sframe[e].spotify_id \in DOMAIN artists
        /\ sframe[e].msgs = <<SearchingMessage>>

\* C19: a run whose lookup finds no search record (never created, deleted or
\* expired) emits, after searching, one error message whose text contains
\* "Search <id> not found", starts no catalog refresh or recommendation work
\* and writes no session record.
C19_MissingSearchGivesNotFound ==
    [][\A e \in Streams :
         ( /\ spc[e] = "y_searching" /\ spc'[e] \notin {"y_searching", "dropped"}
           /\ Get(SearchKeyOf(e)) = NoValue )
         => /\ spc'[e] = "y_error"
            /\ Len(sframe'[e].msgs) = 2
            /\ sframe'[e].msgs[1] = SearchingMessage
            /\ sframe'[e].msgs[2].status = "error"
            /\ Contains(sframe'[e].msgs[2].message,
                        NotFoundText(sframe[e].search_id))
            /\ sframe'[e].log = <<"searching", "get_search", "error">>
            /\ store' = store
            /\ UNCHANGED gateVars
      ]_vars

\* a run for a search id whose record has expired has received not found
C19_Witness ==
    \E e \in Streams :
        /\ spc[e] = "y_error"
        /\ sframe[e].search_id \in created
        /\ rclock >= ExpireTime
        /\ sframe[e].deletes = 0
        /\ \A d \in Streams : sframe[d].deletes = 0
        /\ sframe[e].msgs[2].message = <<"'", "Search ", sframe[e].search_id,
                                         " not found", "'">>

\* C20: a run that has delivered completed ran, in this order, the catalog
\* refresh, the tree resolution, the session write and the emission; and
\* until the session's TTL has elapsed get_session of its id returns a
\* record whose root song is the song of the message.
C20_StagesInOrder ==
    \A e \in Streams :
        LET f == sframe[e] IN
          (Len(f.msgs) = 2 /\ f.msgs[2].status = "completed")
          => /\ Len(f.log) >= 6
             /\ SubSeq(f.log, 1, 6) =
                   <<"searching", "get_search", "search_songs_for_artist",
                     "create_decision_tree", "create_session", "completed">>
             /\ rclock < f.session_expires
                   => /\ Get(Key("session", f.search_id)) # NoValue
                      /\ Get(Key("session", f.search_id)).tree.song =
                            f.msgs[2].song

\* the consumer holds completed and the session record is served
C20_Witness ==
    \E e \in Streams :
        /\ spc[e] = "y_completed"
        /\ sframe[e].msgs[2].status = "completed"
        /\ sframe[e].msgs[2].song.song_id = "0"
        /\ Live(Key("session", sframe[e].search_id))

\* stream e has delivered the completed message
Completed(e) ==
    /\ Len(sframe[e].msgs) = 2
    /\ sframe[e].msgs[2].status = "completed"

\* C21: the track of a completed message, and the root track of the session
\* record written with it, is the track persisted at path 1 of the artist's
\* recommendation table, and the message carries the artist id and name of
\* the search record.
C21_CompletedIsRootRecommendation ==
    \A e \in Streams :
        Completed(e) =>
            LET m == sframe[e].msgs[2] IN
              /\ 1 \in DOMAIN recs
              /\ m.song.song_id = recs[1]
              /\ m.artistId = sframe[e].spotify_id
              /\ m.artistName = sframe[e].artist_name
              /\ Live(Key("session", sframe[e].search_id))
                    => Get(Key("session", sframe[e].search_id)).tree.song
                          = m.song

NoFailure == [type |-> "none", message |-> <<>>]

\* the exception the stage that stream e is about to resume will raise, as
\* far as the state decides it: of the search lookup and the reading of its
\* fields, of the catalog refresh that has ended, of the tree resolution
StageFailure(e) ==
    LET data == Get(SearchKeyOf(e))
        g == gframe[GateOf(e)]
    IN IF spc[e] = "y_searching"
       THEN IF data = NoValue
            THEN [type |-> "KeyError",
                  message |-> <<"'", "Search ", sframe[e].search_id,
                                " not found", "'">>]
            ELSE IF "spotify_id" \notin DOMAIN data
            THEN [type |-> "KeyError", message |-> <<"'", "spotify_id", "'">>]
            ELSE NoFailure
       ELSE IF spc[e] = "gate"
       THEN IF gpc[GateOf(e)] = "done" /\ g.raised # "none"
            THEN [type |-> g.raised, message |-> <<g.raised>>]
            ELSE NoFailure
       ELSE IF spc[e] = "tree"
               /\ sanitize_table_name(sframe[e].artist_name)
                     \notin DOMAIN song_tables
       THEN [type |-> "OperationalError", message |-> <<"OperationalError">>]
       ELSE NoFailure

\* C22: when a stage of a run raises (and the run is not closed or cancelled
\* in that step), the run delivers, after searching, one error message with
\* the type and the text of that exception and suspends there; a failed
\* session write stores nothing; after an error message no further message
\* is delivered.
C22_StageExceptionGivesOneError ==
    [][\A e \in Streams :
         LET x == StageFailure(e) IN
           /\ ( /\ spc[e] \in {"y_searching", "gate", "tree"}
                /\ spc'[e] \notin {spc[e], "dropped", "closed"} )
              => /\ x # NoFailure =>
                      /\ spc'[e] = "y_error"
                      /\ sframe'[e].msgs =
                            <<SearchingMessage,
                              [status |-> "error", type |-> x.type,
                               message |-> x.message]>>
                 /\ spc'[e] = "y_error" =>
                      /\ Len(sframe'[e].msgs) = 2
                      /\ sframe'[e].msgs[2].status = "error"
                      /\ store' = store
                      /\ x = NoFailure =>
                           /\ spc[e] = "tree"
                           /\ sframe'[e].msgs[2].type = "RedisError"
                           /\ sframe'[e].msgs[2].message = <<"RedisError">>
           /\ spc[e] = "y_error"
              => /\ spc'[e] \in {"y_error", "dropped", "closed"}
                 /\ sframe'[e].msgs = sframe[e].msgs
      ]_vars

\* a run has received the KeyError of a record without spotify_id, and
\* another the error of its failed catalog refresh
C22_Witness ==
    \E e, d \in Streams :
        /\ spc[e] = "y_error"
        /\ sframe[e].msgs[2].message = <<"'", "spotify_id", "'">>
        /\ spc[d] = "y_error"
        /\ sframe[d].msgs[2].type = "SyncError"

\* the run of stream e ended in an error injected from outside the program
\* (a failing statement of the sync, a failing Redis write)
Faulted(e) ==
    /\ sframe[e].msgs[2].status = "error"
    /\ sframe[e].msgs[2].type \in {"SyncError", "RedisError"}

\* the run of stream e has ended after its consumer read it to the end, and
\* it had found its search record
RanToEnd(e) ==
    /\ spc[e] = "closed"
    /\ ~sframe[e].abandoned
    /\ \E i \in DOMAIN sframe[e].log :
          sframe[e].log[i] = "search_songs_for_artist"

\* C23: two runs for distinct search ids whose catalog refreshes ran at the
\* same time, read to their end without an injected fault, have both
\* delivered searching then completed, have each deleted (once) its own
\* search record, and each id has its session record while its TTL lasts.
C23_ConcurrentStreamsDoNotInterfere ==
    \A e, d \in Streams :
        ( /\ e # d
          /\ sframe[e].search_id # sframe[d].search_id
          /\ RanToEnd(e) /\ RanToEnd(d)
          /\ GateOf(d) \in gframe[GateOf(e)].overlaps
          /\ GateOf(e) \in gframe[GateOf(d)].overlaps
          /\ ~Faulted(e) /\ ~Faulted(d) )
        => \A r \in {e, d} :
             /\ sframe[r].msgs[1] = SearchingMessage
             /\ Completed(r)
             /\ sframe[r].deletes = 1
             /\ ~Live(SearchKeyOf(r))
             /\ rclock < sframe[r].session_expires
                   => Live(Key("session", sframe[r].search_id))

\* the path a vote history leads to: 1, then one NextPath per vote
RECURSIVE PathOf(_)
PathOf(vote_history) ==
    IF vote_history = <<>> THEN 1
    ELSE 2 * PathOf(SubSeq(vote_history, 1, Len(vote_history) - 1))
           + VoteBit(vote_history[Len(vote_history)])

\* the path a vote request addresses: (currentPath << 1) | liked, where a
\* request that carries its votes as a history has the path of the history
\* before the last vote as currentPath
VotedPath(data) ==
    IF "currentPath" \in DOMAIN data
    THEN 2 * data.currentPath + VoteBit(data.liked)
    ELSE PathOf(data.vote_history)

\* the request carries a vote
CarriesVote(data) ==
    "currentPath" \in DOMAIN data \/ data.vote_history # <<>>

\* C24: a vote request is answered without an error, by continue or by
\* complete, and a continue answer carries as currentPath the path
\* (currentPath << 1) | liked of the vote, together with a song.
C24_VoteContract ==
    (vote_resp # NoResponse /\ CarriesVote(vote_req)) =>
        /\ vote_resp.raised = "none"
        /\ vote_resp.body.status \in {"continue", "complete"}
        /\ vote_resp.body.status = "continue" =>
              /\ "song" \in DOMAIN vote_resp.body
              /\ "currentPath" \in DOMAIN vote_resp.body
              /\ vote_resp.body.currentPath = VotedPath(vote_req)

\* the TTL of the store's records, in seconds
OneHour == 3600

\* the fate of a key by its history
NeverCreated(key) == key \notin DOMAIN written
Deleted(key) == key \in DOMAIN written /\ written[key].deleted
Expired(key) ==
    /\ key \in DOMAIN written
    /\ ~written[key].deleted
    /\ rclock >= written[key].at + OneHour
Fresh(key) ==
    /\ key \in DOMAIN written
    /\ ~written[key].deleted
    /\ rclock < written[key].at + OneHour

\* C25: get_search and get_session return the record last written under
\* the key when it was written less than an hour ago and not deleted since,
\* and the same null when the key was never created, has expired or was
\* deleted.
C25_GetNullOrStored ==
    [][(reply' # reply /\ reply'.op \in {"get_search", "get_session"})
         => reply'.result = IF Fresh(reply'.key) THEN written[reply'.key].value
                            ELSE NoValue
      ]_vars

\* get_session has answered null for a session that expired, while the
\* search of the id, created later, is still served
C25_Witness ==
    /\ reply.op = "get_session"
    /\ Expired(reply.key)
    /\ reply.result = NoValue
    /\ Fresh(Key("search", reply.key[2]))

WriteOps == {"create_search", "create_session", "update_session"}

\* C26: a create or update call on a key, whether or not the key holds a
\* record, raises nothing, leaves the record it wrote under the key with an
\* expiry of one hour from the call, and leaves every other key as it was;
\* so the record served is that of the last write.
C26_LastWriterWins ==
    [][((reply' # reply \/ written' # written) /\ reply'.op \in WriteOps)
         => LET k == reply'.key IN
              /\ reply'.raised = "none"
              /\ k \in DOMAIN store'
              /\ store'[k].value = written'[k].value
              /\ store'[k].expires_at = rclock + OneHour
              /\ \A j \in DOMAIN store \ {k} :
                    j \in DOMAIN store' /\ store'[j] = store[j]
              /\ DOMAIN store' = DOMAIN store \cup {k}
      ]_vars

\* half an hour after a session was created, update_session has replaced
\* it by another record, and the key expires an hour after the update
C26_Witness ==
    LET k == Key("session", "q1") IN
      /\ reply.op = "update_session"
      /\ k \in DOMAIN written
      /\ written[k].replaced
      /\ written[k].at = 1800
      /\ Live(k)
      /\ store[k].expires_at = 1800 + OneHour
      /\ Get(k) = written[k].value

\* C27: delete_search raises nothing; on a key that holds no record (never
\* created, expired or already deleted) it leaves the store as it is; on any
\* key it leaves the key without a record and every other key as it was, and
\* a second delete changes nothing more.
C27_DeleteIdempotent ==
    [][((reply' # reply \/ written' # written \/ store' # store)
           /\ rclock' = rclock
           /\ reply'.op = "delete_search")
         => LET k == reply'.key IN
              /\ reply'.raised = "none"
              /\ ~Live(k) => store' = store
              /\ k \notin DOMAIN store'
              /\ \A j \in DOMAIN store \ {k} :
                    j \in DOMAIN store' /\ store'[j] = store[j]
              /\ Delete(store', k) = store'
      ]_vars

\* delete_search has been called on a search key that held no record any
\* more, an hour or more after its last write, while the session of the id
\* is still served
C27_Witness ==
    /\ reply.op = "delete_search"
    /\ reply.raised = "none"
    /\ reply.result.removed = 0
    /\ reply.key \in DOMAIN written
    /\ rclock >= written[reply.key].at + OneHour
    /\ ~Live(reply.key)
    /\ Live(Key("session", reply.key[2]))

\* C28: every record in the store was written by a manager call and
\* expires exactly one hour after its last write, whichever of
\* create_search, create_session and update_session wrote it; and once that
\* hour has passed the record is gone, without any delete.
C28_EveryRecordExpires ==
    /\ \A k \in DOMAIN store :
          /\ k \in DOMAIN written
          /\ store[k].expires_at = written[k].at + OneHour
          /\ rclock < store[k].expires_at
    /\ \A k \in DOMAIN written :
          rclock >= written[k].at + OneHour
             => (k \notin DOMAIN store /\ Get(k) = NoValue)

\* the search and the session of an id, the session last written by
\* update_session over another record, never deleted, are both gone
C28_Witness ==
    LET q == Key("search", "q1")
        n == Key("session", "q1")
    IN /\ Expired(q) /\ Expired(n)
       /\ written[n].replaced
       /\ reply.op = "update_session"
       /\ store = NoKeys

\* C29: a get_root call that found a node at path 1 and then finds no track
\* of that id in the catalog raises ValueError and returns nothing; neither
\* its lookup of the node nor its lookup of the track writes to the
\* recommendation table, and path 1 still holds the id it found.
C29_MissingRootTrackFails ==
    [][\A p \in Procs :
         /\ ( /\ pc[p] = "r_get_track" /\ pc'[p] # pc[p]
              /\ frame[p].existing_track_id \notin TrackIdsOf(tracks) )
            => /\ pc'[p] = "done"
               /\ frame'[p].raised = "ValueError"
               /\ frame'[p].result = None
               /\ recs' = recs
               /\ 1 \in DOMAIN recs'
               /\ recs'[1] = frame[p].existing_track_id
         /\ (pc[p] = "r_select" /\ pc'[p] # pc[p]) => recs' = recs
      ]_vars

\* after a re-sync that dropped the root's track from a catalog that still
\* holds another track, get_root has raised and path 1 holds the old id
C29_Witness ==
    \E p \in Procs :
        /\ pc[p] = "done"
        /\ frame[p].op = "root"
        /\ frame[p].raised = "ValueError"
        /\ frame[p].existing_track_id # None
        /\ 1 \in DOMAIN recs
        /\ recs[1] = frame[p].existing_track_id
        /\ tracks # <<>>
        /\ recs[1] \notin TrackIdsOf(tracks)
        /\ DOMAIN recs = {1}

\* C30: a get_root call that found no node at path 1 and reads an empty
\* catalog raises ValueError and returns nothing, and the recommendation
\* table, which it has created, has no row.
C30_EmptyCatalogFails ==
    [][\A p \in Procs :
         (pc[p] = "r_get_tracks" /\ pc'[p] # pc[p] /\ tracks = <<>>)
         => /\ pc'[p] = "done"
            /\ frame'[p].raised = "ValueError"
            /\ frame'[p].result = None
            /\ frame[p].existing_track_id = None
            /\ rec_table'
            /\ recs' = NoRecs
      ]_vars

\* on an empty catalog two get_root calls have raised and the table is
\* empty
C30_Witness ==
    /\ tracks = <<>>
    /\ rec_table
    /\ recs = NoRecs
    /\ \A p \in Procs :
          /\ pc[p] = "done"
          /\ frame[p].op = "root"
          /\ frame[p].raised = "ValueError"
          /\ frame[p].existing_track_id = None

\* C31: a get_next call returns null only when every track of the catalog is
\* assigned in the tree at that moment; a call that found a node at next_path
\* returns that node's track, never null.
C31_NullMeansComplete ==
    [][\A p \in Procs :
         ( /\ pc[p] # "done" /\ pc'[p] = "done"
           /\ frame'[p].op = "next"
           /\ frame'[p].raised = "none"
           /\ frame'[p].result = None )
         => /\ frame[p].existing_track_id = None
            /\ TrackIdsOf(tracks) \subseteq Range(recs)
      ]_vars

\* C32: whenever get_root returns a track normally, the recommendation table
\* holds a row for path 1 with exactly that track; a failed insert or commit
\* is raised to the caller, the unpersisted candidate is not returned.
C32_RootReturnIsPersisted ==
    [][\A p \in Procs :
         ( /\ pc[p] # "done" /\ pc'[p] = "done"
           /\ frame'[p].op = "root"
           /\ frame'[p].raised = "none" )
         => /\ 1 \in DOMAIN recs'
            /\ recs'[1] = frame'[p].result
      ]_vars

\* C33: a get_next call whose insert finds a row already at next_path ends
\* there with an error (no retry), returns no track, and leaves the
\* recommendation table as it was.
C33_CollidingInsertFails ==
    [][\A p \in Procs :
         ( /\ pc[p] = "n_insert" /\ pc'[p] # pc[p]
           /\ frame[p].next_path \in DOMAIN recs )
         => /\ pc'[p] = "done"
            /\ frame'[p].raised = "IntegrityError"
            /\ frame'[p].result = None
            /\ recs' = recs
      ]_vars

\* a get_next call has failed on a row another call stored at its path, with
\* a track other than its own candidate
C33_Witness ==
    \E p \in Procs :
        /\ pc[p] = "done"
        /\ frame[p].op = "next"
        /\ frame[p].raised = "IntegrityError"
        /\ frame[p].next_path \in DOMAIN recs
        /\ frame[p].candidate # None
        /\ recs[frame[p].next_path] # frame[p].candidate

\* the record of search id is served by Redis
SearchLive(id) == Live(Key("search", id))

\* stream e has just been answered, in this step, with the error message of
\* a search that was not found
AnsweredNotFound(e) ==
    /\ spc[e] = "y_searching"
    /\ spc'[e] = "y_error"
    /\ sframe'[e].msgs[Len(sframe'[e].msgs)]
         = ErrorMessage("KeyError",
                        StrKeyError(NotFoundText(sframe[e].search_id)))

\* the search_updates endpoint has just, in this step, answered a request of
\* stream slot e for search id
Requested(e, id) ==
    /\ sruns' = sruns + 1
    /\ sframe'[e].search_id = id
    /\ (sframe'[e] # sframe[e] \/ spc'[e] # spc[e])

\* C34: start_search leaves a record under its fresh id; the record stays
\* until a stream of that id finishes (its cleanup runs) or the TTL elapses,
\* and is not created again; a stream the endpoint opened while the record
\* existed is never answered with not-found, and a request made after the
\* record is gone is answered with not-found.
C34_SearchLifecycle ==
    [][\A id \in LifeIds :
         /\ (id \notin created /\ id \in created') => SearchLive(id)'
         /\ (SearchLive(id) /\ ~SearchLive(id)')
            => \/ rclock' >= store[Key("search", id)].expires_at
               \/ \E e \in Streams : /\ sframe[e].search_id = id
                                     /\ sframe'[e].deletes = sframe[e].deletes + 1
         /\ (id \in created /\ ~SearchLive(id)) => ~SearchLive(id)'
         /\ \A e \in Streams :
              /\ (sframe[e].search_id = id) => ~AnsweredNotFound(e)
              /\ (Requested(e, id) /\ id \in created /\ ~SearchLive(id))
                 => /\ sframe'[e].msgs = <<>>
                    /\ sframe'[e].log = <<"search_not_found">>
      ]_vars

\* what the store holds under a key: the record and its expiry, or nothing
Entry(st, key) == IF key \in DOMAIN st THEN st[key] ELSE NoValue

SearchOps == {"create_search", "get_search", "delete_search"}
SessionOps == {"create_session", "get_session", "update_session"}

\* C35: a search manager call (create, overwrite, read, delete) works on the
\* key search:{id} and leaves what is stored under session:{id} as it was,
\* and a session manager call works on session:{id} and leaves search:{id}
\* as it was.
C35_KindsAreSeparate ==
    [][(rclock' = rclock)
         => \A id \in StoreIds :
              /\ (reply'.op \in SearchOps /\ reply'.key[2] = id)
                 => /\ reply'.key = Key("search", id)
                    /\ Entry(store', Key("session", id))
                         = Entry(store, Key("session", id))
              /\ (reply'.op \in SessionOps /\ reply'.key[2] = id)
                 => /\ reply'.key = Key("session", id)
                    /\ Entry(store', Key("search", id))
                         = Entry(store, Key("search", id))
      ]_vars

\* as at the end of a completed stream: the session of an id was created,
\* then delete_search removed the search record of that id, and the session
\* record is still served
C35_Witness ==
    \E id \in StoreIds :
        /\ reply.op = "delete_search"
        /\ reply.key = Key("search", id)
        /\ reply.result.removed = 1
        /\ ~Live(Key("search", id))
        /\ Key("session", id) \in DOMAIN written
        /\ Live(Key("session", id))
        /\ Get(Key("session", id)) = written[Key("session", id)].value
        /\ Get(Key("session", id)).tree
             = _serialize_tree(create_mock_decision_tree(
                                  Get(Key("session", id)).artist_name))

\* C36: no statement of a get_next call changes the catalog; the call writes
\* to the recommendation table only when it assigns a new track, and then it
\* adds exactly one row, at next_path, with a track of the current catalog,
\* and changes no other row. A call that found a node at next_path or found
\* no available track writes nothing.
C36_NextFrame ==
    [][\A p \in Procs :
         (pc'[p] # pc[p] /\ frame'[p].op = "next")
         => /\ tracks' = tracks
            /\ IF pc[p] = "n_insert" /\ frame'[p].raised = "none"
               THEN /\ frame[p].existing_track_id = None
                    /\ frame[p].next_path \notin DOMAIN recs
                    /\ recs' = recs @@ (frame[p].next_path :> frame'[p].result)
                    /\ frame'[p].result \in TrackIdsOf(tracks)
               ELSE recs' = recs
      ]_vars

\* C37: in every reachable state every track_id stored in the recommendation
\* table is the id of a track of the catalog, and no call that found an
\* existing node has failed to resolve its track.
C37_TreeRefersToCatalog ==
    /\ Range(recs) \subseteq TrackIdsOf(tracks)
    /\ \A p \in Procs :
         (pc[p] = "done" /\ frame[p].existing_track_id # None)
         => /\ frame[p].raised = "none"
            /\ frame[p].result = frame[p].existing_track_id

\* table `name` is the same, or as absent, in both sets of tables
SameTable(old, new, name) ==
    /\ (name \in DOMAIN old) <=> (name \in DOMAIN new)
    /\ (name \in DOMAIN old) => new[name] = old[name]

\* C38: distinct artist ids have distinct track tables and distinct
\* recommendation tables, and a sync, get_root or get_next for one artist
\* leaves the track table and the recommendation table of every other
\* artist as they were.
C38_ArtistIsolation ==
    [][(table_calls' # table_calls)
         => \A other \in ArtistIds \ {table_call'.artist_id} :
              /\ create_track_table(other)
                   # create_track_table(table_call'.artist_id)
              /\ create_recommendations_table(other)
                   # create_recommendations_table(table_call'.artist_id)
              /\ SameTable(track_tables, track_tables',
                           create_track_table(other))
              /\ SameTable(rec_tables, rec_tables',
                           create_recommendations_table(other))
      ]_vars

\* the vote history stays inside the tree: every vote finds a child
RECURSIVE InTree(_, _)
InTree(tree, vote_history) ==
    \/ vote_history = <<>>
    \/ LET child == IF Head(vote_history) THEN tree.vote_yes ELSE tree.vote_no
       IN child # NoNode /\ InTree(child, Tail(vote_history))

\* C39: get_current_song on the served session record created from tree T
\* raises nothing and returns the song get_next_song(T, h) returns: the root
\* song for the empty history, the vote_yes child's for a true vote, the
\* vote_no child's for a false vote; both return no song exactly when the
\* history leaves the tree.
C39_SnapshotAgrees ==
    /\ (nav.current.called /\ nav.current.served)
       => /\ nav.current.raised = "none"
          /\ nav.current.song = get_next_song(nav.tree, nav.vote_history)
          /\ nav.current.song = NoValue
               <=> ~InTree(nav.tree, nav.vote_history)
          /\ nav.vote_history = <<>> => nav.current.song = nav.tree.song
          /\ (nav.vote_history = <<TRUE>> /\ nav.tree.vote_yes # NoNode)
               => nav.current.song = nav.tree.vote_yes.song
          /\ (nav.vote_history = <<FALSE>> /\ nav.tree.vote_no # NoNode)
               => nav.current.song = nav.tree.vote_no.song
          /\ nav.next.called => nav.next.song = nav.current.song
    /\ nav.next.called
       => (nav.next.song = NoValue <=> ~InTree(nav.tree, nav.vote_history))

\* both navigations have answered the history yes, no on the full mock tree
\* with the song of that node, half an hour after the session was created
C39_Witness ==
    /\ nav.current.called /\ nav.current.served
    /\ nav.next.called
    /\ nav.tree = create_mock_decision_tree(Str_Artist_x)
    /\ nav.vote_history = <<TRUE, FALSE>>
    /\ nav.current.song = Song("5", Str_Artist_x)
    /\ rclock = 1800

\* the get_db generator of request r has ended
Exited(r) == dep[r].pc = "exited"

\* commit or rollback, and what leaves the generator: a consumer that
\* finished has its session committed by exactly one commit call; a consumer
\* that raised has its session rolled back, never committed, and gets its
\* exception raised again; no close comes before that
CommitOrRollback(r) ==
    /\ dep[r].closes > 0 => dep[r].pc \in {"aexit", "exited"}
    /\ Exited(r) =>
         /\ dep[r].consumer = "returned"
            => /\ dep[r].commits = 1
               /\ dep[r].txn = "committed" <=> dep[r].raised = "none"
               /\ dep[r].txn = "committed" => dep[r].rollbacks = 0
         /\ dep[r].consumer # "returned"
            => /\ dep[r].commits = 0
               /\ dep[r].txn = "rolled_back"
               /\ dep[r].raised = dep[r].consumer
               /\ IsException(dep[r].consumer) => dep[r].rollbacks = 1

\* C40 as stated: commit-or-rollback, and in both cases the session is
\* closed exactly once afterwards.
C40_ClosedExactlyOnce ==
    \A r \in Requests :
        /\ CommitOrRollback(r)
        /\ Exited(r) => dep[r].closed /\ dep[r].closes = 1

\* C40: commit-or-rollback, and in both cases the session is closed
\* afterwards, by two close calls: the one of the finally block and the one
\* the exit of `async with` makes on the session already closed.
C40_ClosedByTwoCalls ==
    \A r \in Requests :
        /\ CommitOrRollback(r)
        /\ Exited(r) => dep[r].closed /\ dep[r].closes = 2
        /\ dep[r].pc = "aexit" => dep[r].closed /\ dep[r].closes = 1

\* one request has ended committed, another rolled back after its consumer
\* raised, with the exception raised again, and both sessions are closed
C40_Witness ==
    \E r, q \in Requests :
        /\ Exited(r) /\ Exited(q)
        /\ dep[r].consumer = "returned" /\ dep[r].txn = "committed"
        /\ dep[r].commits = 1 /\ dep[r].raised = "none"
        /\ dep[q].consumer = "ValueError" /\ dep[q].txn = "rolled_back"
        /\ dep[q].rollbacks = 1 /\ dep[q].raised = "ValueError"
        /\ dep[r].closed /\ dep[q].closed

====
